---- MODULE Spec2Model ----
(***************************************************************************)
(* Eidon command-line tool: layered configuration resolution               *)
(* (src/src/eidon/config.py), the dispatcher (src/src/eidon/cli.py), the   *)
(* module entry point (src/src/eidon/__main__.py) and the subcommand       *)
(* handlers (src/src/eidon/commands).                                      *)
(*                                                                         *)
(* Representation.  A Python string is a sequence of tokens; for names and *)
(* log levels a token is one character, for paths one path component, and  *)
(* a string literal of the code is one or two tokens.  A Python value is a *)
(* tagged record (PyNone, PyStr, PyInt, PyTbl).  A TOML table is the ordered       *)
(* sequence of its (key, value) entries, as tomllib builds its dicts.      *)
(***************************************************************************)
EXTENDS Integers, Sequences, FiniteSets, TLC

VARIABLES
    entry,      \* which entry point runs: "run_cli" (cli.py) or "main" (__main__.py)
    argv,       \* the command line, as the flags and subcommand it spells
    env,        \* os.environ: variable name -> PyStr(..) or PyNone when unset
    fs,         \* the filesystem: path -> file state
    pc,         \* position of the invocation
    args,       \* the parsed argparse namespace
    cfg,        \* the Config object under construction / attached to args
    sources,    \* the provenance dict
    exc,        \* the exception that escaped, or "none"
    root,       \* the root logger: its level and its handler's stream
    stdout,     \* what was written to standard output, in order
    stderr,     \* what was written to standard error, in order
    code,       \* the exit code returned, or -1 while running
    trace,      \* history: the calls of load_config and of handlers, and usage messages
    _REGISTRY,  \* commands/__init__.py: the list of registrars
    sys_modules,\* the command modules already imported in this process
    held,       \* a list a caller got from get_registry
    proc,       \* the process: the invocations it has finished
    target,     \* the directory an init invocation is pointed at
    overlay,    \* demo_web.py: the overlay files inbox.json and risk_actions.json
    sess,       \* demo_web.py: the operation each dashboard session is in
    clock       \* demo_web.py: the wall clock, in seconds

\* what belongs to the process and its surroundings rather than to one invocation
Registry == <<_REGISTRY, sys_modules, held>>
Dashboard == <<overlay, sess, clock>>
Outside == <<Registry, proc, target, Dashboard>>

vars == <<entry, argv, env, fs, pc, args, cfg, sources, exc, root, stdout, stderr, code, trace,
          Outside>>

-----------------------------------------------------------------------------
(* Python values *)

PyNone == [t |-> "none"]
PyStr(s) == [t |-> "str", s |-> s]
PyInt(n) == [t |-> "int", n |-> n]
PyTbl(m) == [t |-> "tbl", m |-> m]

isinstance_str(v) == v.t = "str"
isinstance_dict(v) == v.t = "tbl"

\* bool(v): None, "" and 0 and {} are falsy
Truthy(v) ==
    CASE v.t = "none" -> FALSE
      [] v.t = "str" -> v.s # <<>>
      [] v.t = "int" -> v.n # 0
      [] v.t = "tbl" -> v.m # <<>>
      [] OTHER -> TRUE

\* mapping.get(key): the value of the entry with that key, None when there is none
Get(mapping, key) ==
    IF \E i \in 1..Len(mapping) : mapping[i].k = key
    THEN mapping[CHOOSE i \in 1..Len(mapping) : mapping[i].k = key].v
    ELSE PyNone

\* d[k] = v on a dict, obj.k = v on an object: the key is added when missing
SetItem(d, k, v) == [x \in (DOMAIN d) \cup {k} |-> IF x = k THEN v ELSE d[x]]

MinOf(S) == CHOOSE x \in S : \A y \in S : x <= y

-----------------------------------------------------------------------------
(* Strings *)

LowerCase == <<"a","b","c","d","e","f","g","h","i","j","k","l","m",
               "n","o","p","q","r","s","t","u","v","w","x","y","z">>
UpperCase == <<"A","B","C","D","E","F","G","H","I","J","K","L","M",
               "N","O","P","Q","R","S","T","U","V","W","X","Y","Z">>

UpperChar(c) ==
    IF \E i \in 1..Len(LowerCase) : LowerCase[i] = c
    THEN UpperCase[CHOOSE i \in 1..Len(LowerCase) : LowerCase[i] = c]
    ELSE c

\* str.upper()
Upper(s) == [i \in 1..Len(s) |-> UpperChar(s[i])]

\* str.strip(): leading and trailing blanks removed
Strip(s) ==
    LET keep == {i \in 1..Len(s) : s[i] # " "}
    IN  IF keep = {} THEN <<>>
        ELSE SubSeq(s, MinOf(keep), CHOOSE x \in keep : \A y \in keep : y <= x)

-----------------------------------------------------------------------------
(* config.py: the Config dataclass, paths and files *)

World == <<"W","o","r","l","d">>

\* Config(): default_name = "World", log_level = None
Config == [default_name |-> PyStr(World), log_level |-> PyNone]

\* the provenance dict load_config starts from
DefaultSources == [default_name |-> <<"default">>, log_level |-> <<"default">>]

Cwd == <<"/", "proj">>
Home == <<"/", "home">>

\* Path(s): "." components are dropped unless the path is only "."
Path(s) ==
    LET kept == SelectSeq(s, LAMBDA c : c # ".")
    IN  IF kept = <<>> /\ s # <<>> THEN <<".">> ELSE kept

\* a relative path names a file under the current directory
Absolute(p) == IF p # <<>> /\ p[1] = "/" THEN p ELSE Cwd \o SelectSeq(p, LAMBDA c : c # ".")

Absent == [kind |-> "absent"]
Malformed == [kind |-> "malformed"]
Unreadable == [kind |-> "unreadable"]
Toml(m) == [kind |-> "toml", m |-> m]

FileAt(p) == IF Absolute(p) \in DOMAIN fs THEN fs[Absolute(p)] ELSE Absent

\* Path.exists()
exists(p) == FileAt(p).kind # "absent"

\* path.open("rb") raises on an unreadable file, tomllib.load on a malformed one
_read_toml(p) ==
    IF FileAt(p).kind = "toml"
    THEN [raised |-> FALSE, m |-> FileAt(p).m]
    ELSE [raised |-> TRUE, m |-> <<>>]

\* variant: only the direct keys of the top level are tried
_find_name_recursive_flat(mapping) ==
    IF isinstance_str(Get(mapping, "default_name")) THEN Get(mapping, "default_name")
    ELSE IF isinstance_str(Get(mapping, "name")) THEN Get(mapping, "name")
    ELSE PyNone

RECURSIVE _find_name_recursive(_)
_find_name_recursive(mapping) ==
    LET direct == <<Get(mapping, "default_name"), Get(mapping, "name")>>
        found == [i \in 1..Len(mapping) |->
                    IF isinstance_dict(mapping[i].v)
                    THEN _find_name_recursive(mapping[i].v.m)
                    ELSE PyNone]
        hits == {i \in 1..Len(mapping) : isinstance_str(found[i])}
    IN  IF isinstance_str(direct[1]) THEN direct[1]
        ELSE IF isinstance_str(direct[2]) THEN direct[2]
        ELSE IF hits # {} THEN found[MinOf(hits)]
        ELSE PyNone

\* mutant: a name already set by a lower tier is kept
ApplyName_fill(r, mapping, label) ==
    LET nm == _find_name_recursive(mapping)
    IN  IF isinstance_str(nm) /\ r.sources["default_name"] = <<"default">>
        THEN [cfg |-> SetItem(r.cfg, "default_name", nm),
              sources |-> SetItem(r.sources, "default_name", label)]
        ELSE r

\* the name part of _apply_from_mapping
ApplyName(r, mapping, label) ==
    LET nm == _find_name_recursive(mapping)
    IN  IF isinstance_str(nm)
        THEN [cfg |-> SetItem(r.cfg, "default_name", nm),
              sources |-> SetItem(r.sources, "default_name", label)]
        ELSE r

\* variant: the tier stamps its label on log_level even when it has no string for it
ApplyTopLevel_stamp(r, mapping, label) ==
    IF isinstance_str(Get(mapping, "log_level"))
    THEN [cfg |-> SetItem(r.cfg, "log_level", PyStr(Upper(Get(mapping, "log_level").s))),
          sources |-> SetItem(r.sources, "log_level", label)]
    ELSE [cfg |-> r.cfg, sources |-> SetItem(r.sources, "log_level", label)]

\* the top-level "log_level" part of _apply_from_mapping
ApplyTopLevel(r, mapping, label) ==
    IF isinstance_str(Get(mapping, "log_level"))
    THEN [cfg |-> SetItem(r.cfg, "log_level", PyStr(Upper(Get(mapping, "log_level").s))),
          sources |-> SetItem(r.sources, "log_level", label)]
    ELSE r

\* mutant: the [logging].level value is stored without its provenance
ApplyLoggingTable_nolabel(r, mapping, label) ==
    LET logging_tbl == Get(mapping, "logging")
        level == IF isinstance_dict(logging_tbl) THEN Get(logging_tbl.m, "level") ELSE PyNone
    IN  IF isinstance_dict(logging_tbl) /\ isinstance_str(level)
        THEN [cfg |-> SetItem(r.cfg, "log_level", PyStr(Upper(level.s))),
              sources |-> r.sources]
        ELSE r

\* the [logging].level part of _apply_from_mapping
ApplyLoggingTable(r, mapping, label) ==
    LET logging_tbl == Get(mapping, "logging")
        level == IF isinstance_dict(logging_tbl) THEN Get(logging_tbl.m, "level") ELSE PyNone
    IN  IF isinstance_dict(logging_tbl) /\ isinstance_str(level)
        THEN [cfg |-> SetItem(r.cfg, "log_level", PyStr(Upper(level.s))),
              sources |-> SetItem(r.sources, "log_level", label)]
        ELSE r

\* mutant: every string-valued top-level key of the file is merged into the config
_apply_from_mapping_merge(c, s, mapping, label) ==
    LET r == ApplyLoggingTable(
                 ApplyTopLevel(
                     ApplyName([cfg |-> c, sources |-> s], mapping, label),
                     mapping, label),
                 mapping, label)
        extra == {mapping[i].k : i \in {j \in 1..Len(mapping) : isinstance_str(mapping[j].v)}}
    IN  [cfg |-> [x \in (DOMAIN r.cfg) \cup extra |->
                     IF x \in DOMAIN r.cfg THEN r.cfg[x] ELSE Get(mapping, x)],
         sources |-> r.sources]

\* mutant: the [logging] table is applied before the top-level log_level
_apply_from_mapping_top_wins(c, s, mapping, label) ==
    ApplyTopLevel(
        ApplyLoggingTable(
            ApplyName([cfg |-> c, sources |-> s], mapping, label),
            mapping, label),
        mapping, label)

_apply_from_mapping(c, s, mapping, label) ==
    ApplyLoggingTable(
        ApplyTopLevel(
            ApplyName([cfg |-> c, sources |-> s], mapping, label),
            mapping, label),
        mapping, label)

_user_config_path ==
    IF Truthy(env["XDG_CONFIG_HOME"])
    THEN Path(env["XDG_CONFIG_HOME"].s) \o <<"eidon", "config.toml">>
    ELSE Home \o <<".config", "eidon", "config.toml">>

_project_config_path == Cwd \o <<"eidon.toml">>

\* mutant: the failure of _read_toml is not caught
TierBlock_propagate(c, s, p, label) ==
    IF exists(p)
    THEN LET read == _read_toml(p)
         IN  IF read.raised
             THEN [cfg |-> c, sources |-> s, raised |-> "TOMLDecodeError"]
             ELSE LET r == _apply_from_mapping(c, s, read.m, label)
                  IN  [cfg |-> r.cfg, sources |-> r.sources, raised |-> "none"]
    ELSE [cfg |-> c, sources |-> s, raised |-> "none"]

\* one "if p.exists(): try: _apply_from_mapping(.., _read_toml(p), label)
\*  except Exception: pass" block of load_config; raised names what escapes it
TierBlock(c, s, p, label) ==
    IF exists(p)
    THEN LET read == _read_toml(p)
         IN  IF read.raised
             THEN [cfg |-> c, sources |-> s, raised |-> "none"]
             ELSE LET r == _apply_from_mapping(c, s, read.m, label)
                  IN  [cfg |-> r.cfg, sources |-> r.sources, raised |-> "none"]
    ELSE [cfg |-> c, sources |-> s, raised |-> "none"]

UserLabel == <<"user">>
ProjectLabel == <<"project">>
\* mutant: the override tag loses its path
OverrideLabel_bare(op) == <<"override">>
OverrideLabel(op) == <<"override:">> \o op
EnvLabel(var) == <<"env:", var>>

\* mutant: os.environ.get() is stored whether or not the variable is set
EnvName_unconditional(r) ==
    [cfg |-> SetItem(r.cfg, "default_name", env["EIDON_DEFAULT_NAME"]),
     sources |-> SetItem(r.sources, "default_name", EnvLabel("EIDON_DEFAULT_NAME"))]

\* mutant: the environment level is stored as given
EnvLevel_raw(r) ==
    IF env["EIDON_LOG_LEVEL"] # PyNone
    THEN [cfg |-> SetItem(r.cfg, "log_level", env["EIDON_LOG_LEVEL"]),
          sources |-> SetItem(r.sources, "log_level", EnvLabel("EIDON_LOG_LEVEL"))]
    ELSE r

\* the two "if VAR in os.environ" blocks of load_config
EnvName(r) ==
    IF env["EIDON_DEFAULT_NAME"] # PyNone
    THEN [cfg |-> SetItem(r.cfg, "default_name", env["EIDON_DEFAULT_NAME"]),
          sources |-> SetItem(r.sources, "default_name", EnvLabel("EIDON_DEFAULT_NAME"))]
    ELSE r

EnvLevel(r) ==
    IF env["EIDON_LOG_LEVEL"] # PyNone
    THEN [cfg |-> SetItem(r.cfg, "log_level", PyStr(Upper(env["EIDON_LOG_LEVEL"].s))),
          sources |-> SetItem(r.sources, "log_level", EnvLabel("EIDON_LOG_LEVEL"))]
    ELSE r

-----------------------------------------------------------------------------
(* load_config, one action per tier.  override_path is args.config. *)

\* history entries
Called(func, outcome) == [ev |-> "call", func |-> func, outcome |-> outcome]
Resolved == [ev |-> "load_config", func |-> "load_config", outcome |-> "return"]
UsageShown == [ev |-> "usage", func |-> "print_help", outcome |-> "return"]

Step(r, next) ==
    /\ cfg' = r.cfg
    /\ sources' = r.sources
    /\ exc' = r.raised
    /\ pc' = IF r.raised = "none" THEN next ELSE "raised"
    /\ trace' = IF pc = "load_config" THEN Append(trace, Resolved) ELSE trace
    /\ UNCHANGED <<entry, argv, env, fs, args, root, stdout, stderr, code, Outside>>

LoadDefaults ==
    /\ pc = "load_config"
    /\ Step([cfg |-> Config, sources |-> DefaultSources, raised |-> "none"], "load_user")

LoadUser ==
    /\ pc = "load_user"
    /\ Step(TierBlock(cfg, sources, _user_config_path, UserLabel), "load_project")

LoadProject ==
    /\ pc = "load_project"
    /\ Step(TierBlock(cfg, sources, _project_config_path, ProjectLabel), "load_override")

\* variant: the file named by --config is not read
LoadOverride_skip ==
    /\ pc = "load_override"
    /\ Step([cfg |-> cfg, sources |-> sources, raised |-> "none"], "load_env")

LoadOverride ==
    /\ pc = "load_override"
    /\ IF Truthy(args.config)
       THEN Step(TierBlock(cfg, sources, Path(args.config.s),
                           OverrideLabel(Path(args.config.s))), "load_env")
       ELSE Step([cfg |-> cfg, sources |-> sources, raised |-> "none"], "load_env")

LoadEnv ==
    /\ pc = "load_env"
    /\ LET r == EnvLevel(EnvName([cfg |-> cfg, sources |-> sources]))
       IN  Step([cfg |-> r.cfg, sources |-> r.sources, raised |-> "none"], "loaded")

load_config == LoadDefaults \/ LoadUser \/ LoadProject \/ LoadOverride \/ LoadEnv

-----------------------------------------------------------------------------
(* Inputs of the resolver: files, environment, --config *)

UserName == <<"U","s","e","r","N","a","m","e">>
ProjectName == <<"P","r","o","j","e","c","t","N","a","m","e">>
FromCustom == <<"F","r","o","m","C","u","s","t","o","m">>
XdgName == <<"X","d","g">>
EnvNameValue == <<"E","n","v","N","a","m","e">>

Entry(k, v) == [k |-> k, v |-> v]

\* how deep below the top level a file may nest its name
MaxDepth == 2

\* default_name = "<n>" placed d tables deep ([eidon], [eidon.eidon], ..)
RECURSIVE Nested(_, _)
Nested(n, d) ==
    IF d = 0 THEN <<Entry("default_name", PyStr(n))>>
    ELSE <<Entry("eidon", PyTbl(Nested(n, d - 1)))>>

\* the name at the top level, and an unrecognized key
NameFile(n) == Toml(Nested(n, 0) \o <<Entry("color", PyStr(<<"r","e","d">>))>>)

\* the name d >= 1 tables deep, then log_level = "debug"
NestedFile(n, d) ==
    Toml(Nested(n, d) \o <<Entry("log_level", PyStr(<<"d","e","b","u","g">>))>>)

\* default_name = 5, log_level = "error", [logging] level = "Info"
LoggingFile ==
    Toml(<<Entry("default_name", PyInt(5)),
           Entry("log_level", PyStr(<<"e","r","r","o","r">>)),
           Entry("logging", PyTbl(<<Entry("level", PyStr(<<"I","n","f","o">>))>>))>>)

\* [logging] level = "warning"
LevelFile ==
    Toml(<<Entry("logging", PyTbl(<<Entry("level", PyStr(<<"w","a","r","n","i","n","g">>))>>))>>)

\* only unrecognized keys and non-string values
OtherFile ==
    Toml(<<Entry("color", PyStr(<<"r","e","d">>)), Entry("log_level", PyInt(10)),
           Entry("logging", PyStr(<<"x">>))>>)

\* log_level = "error", [logging] level = 5
TopOnlyFile ==
    Toml(<<Entry("log_level", PyStr(<<"e","r","r","o","r">>)),
           Entry("logging", PyTbl(<<Entry("level", PyInt(5))>>))>>)

\* log_level = 10, [logging] level = "Info"
TableOnlyFile ==
    Toml(<<Entry("log_level", PyInt(10)),
           Entry("logging", PyTbl(<<Entry("level", PyStr(<<"I","n","f","o">>))>>))>>)

FileStates(n) ==
    {Absent, Malformed, Unreadable, NameFile(n), LoggingFile, LevelFile, OtherFile,
     TopOnlyFile, TableOnlyFile}
        \cup {NestedFile(n, d) : d \in 1..MaxDepth}

HomeUserPath == Home \o <<".config", "eidon", "config.toml">>
XdgDir == <<"/", "xdg">>
XdgUserPath == XdgDir \o <<"eidon", "config.toml">>
CustomPath == Cwd \o <<"custom.toml">>

\* XDG_CONFIG_HOME and the file at the home user path
UserChoices ==
    [xdg : {PyNone}, file : FileStates(UserName)]
        \cup [xdg : {PyStr(<<>>), PyStr(XdgDir)}, file : {NameFile(UserName)}]

\* --config and the file at custom.toml
OverrideChoices ==
    [config : {PyNone, PyStr(<<>>), PyStr(<<"missing.toml">>), PyStr(<<"eidon.toml">>)},
     file : {Absent}]
        \cup [config : {PyStr(<<"custom.toml">>)}, file : FileStates(FromCustom)]
        \cup [config : {PyStr(<<".", "custom.toml">>)}, file : {NameFile(FromCustom)}]

EnvNames == {PyNone, PyStr(<<>>), PyStr(EnvNameValue)}
EnvLevels == {PyNone, PyStr(<<"d","e","b","u","g">>), PyStr(<<"I","N","F","O">>)}

Files(u, p, o) ==
    (HomeUserPath :> u) @@ (XdgUserPath :> LevelFile) @@
    (_project_config_path :> p) @@ (CustomPath :> o)

Environ(xdg, name, level, raise) ==
    [XDG_CONFIG_HOME |-> xdg, EIDON_DEFAULT_NAME |-> name,
     EIDON_LOG_LEVEL |-> level, EIDON_TEST_RAISE |-> raise]

Idle == [level |-> 30, stream |-> "none"]

-----------------------------------------------------------------------------
(* commands/__init__.py: the registry of subcommand registrars *)

\* pkgutil.iter_modules(__path__): the command modules, in name order
CommandModules == <<"config_cmd", "hello">>

\* the function a command module decorates with @register
Registrar(m) == IF m = "hello" THEN "register_hello" ELSE "register_config"

\* lines 10-13
register(registry, registrar) == Append(registry, registrar)

\* variant: importing a module runs its body again even when it is loaded
import_module_uncached(st, m) ==
    [registry |-> register(st.registry, Registrar(m)), modules |-> st.modules \cup {m}]

\* importlib.import_module: the body of the module, with its @register
\* decorator, runs on the first import; a loaded module is returned as it is
import_module(st, m) ==
    IF m \in st.modules THEN st
    ELSE [registry |-> register(st.registry, Registrar(m)), modules |-> st.modules \cup {m}]

RECURSIVE ImportAll(_, _)
ImportAll(st, ms) == IF ms = <<>> THEN st ELSE ImportAll(import_module(st, Head(ms)), Tail(ms))

\* lines 15-22
autodiscover(st) == ImportAll(st, CommandModules)

\* lines 24-25: list(_REGISTRY), a new list with the same items
get_registry(registry) == [alias |-> FALSE, items |-> registry]

Loaded_modules == [registry |-> _REGISTRY, modules |-> sys_modules]

\* no list has been asked for
NotHeld == [alias |-> FALSE, items |-> <<>>]

-----------------------------------------------------------------------------
(* The surroundings of an invocation before anything ran *)

NoRuns == [n |-> 0, runs |-> {}]
NoTarget == [exists |-> FALSE, files |-> <<>>]
\* an overlay file that was never written, and one holding a JSON list
NoFile == [exists |-> FALSE, data |-> <<>>]
JsonFile(data) == [exists |-> TRUE, data |-> data]
EmptyOverlay == [inbox |-> NoFile, risk |-> NoFile]
NoSessions == [at |-> <<>>, dismissed |-> {}, done |-> {}]

FreshProcess ==
    /\ _REGISTRY = <<>>
    /\ sys_modules = {}
    /\ held = NotHeld
    /\ proc = NoRuns

Elsewhere ==
    /\ target = NoTarget
    /\ overlay = EmptyOverlay
    /\ sess = NoSessions
    /\ clock = 0

\* load_config(override_path) called on every combination of the inputs
InitResolver ==
    /\ \E u \in UserChoices, p \in FileStates(ProjectName), o \in OverrideChoices,
          n \in EnvNames, l \in EnvLevels :
          /\ fs = Files(u.file, p, o.file)
          /\ env = Environ(u.xdg, n, l, PyNone)
          /\ args = [config |-> o.config]
    /\ pc = "load_config"
    /\ entry = "load_config"
    /\ argv = <<>>
    /\ cfg = PyNone
    /\ sources = PyNone
    /\ exc = "none"
    /\ root = Idle
    /\ stdout = <<>>
    /\ stderr = <<>>
    /\ code = -1
    /\ trace = <<>>
    /\ FreshProcess
    /\ Elsewhere

NextResolver == load_config

\* inputs of the name search: a project file with or without each direct key, a
\* section holding the name 1..MaxDepth tables deep, and two flat sections
DirectValues(n) == {PyNone, PyInt(5), PyStr(n)}

Direct(nm, dn) ==
    (IF nm = PyNone THEN <<>> ELSE <<Entry("name", nm)>>)
        \o (IF dn = PyNone THEN <<>> ELSE <<Entry("default_name", dn)>>)

Section(k, entries) == <<Entry(k, PyTbl(entries))>>

SearchFiles ==
    {Toml(Direct(nm, dn) \o deep \o a \o b) :
        nm \in DirectValues(<<"N">>), dn \in DirectValues(<<"T">>),
        deep \in {<<>>} \cup {Nested(<<"D">>, d) : d \in 1..MaxDepth},
        a \in {<<>>} \cup {Section("a", Direct(PyNone, v)) : v \in DirectValues(<<"A">>)},
        b \in {<<>>} \cup {Section("b", Direct(v, PyNone)) : v \in DirectValues(<<"B">>)}}

InitSearch ==
    /\ \E p \in SearchFiles : fs = Files(Absent, p, Absent)
    /\ env = Environ(PyNone, PyNone, PyNone, PyNone)
    /\ args = [config |-> PyNone]
    /\ pc = "load_config"
    /\ entry = "load_config"
    /\ argv = <<>>
    /\ cfg = PyNone
    /\ sources = PyNone
    /\ exc = "none"
    /\ root = Idle
    /\ stdout = <<>>
    /\ stderr = <<>>
    /\ code = -1
    /\ trace = <<>>
    /\ FreshProcess
    /\ Elsewhere

SpecSearch == InitSearch /\ [][NextResolver]_vars

SpecResolver == InitResolver /\ [][NextResolver]_vars

-----------------------------------------------------------------------------
(* Logging: levels, logging.basicConfig, and the emission of a record *)

CRITICAL == 50
ERROR == 40
WARNING == 30
INFO == 20
DEBUG == 10
NOTSET == 0

EXIT_USAGE == 2
EXIT_RUNTIME == 3
EXIT_EXISTS == 4

N_CRITICAL == <<"C","R","I","T","I","C","A","L">>
N_FATAL == <<"F","A","T","A","L">>
N_ERROR == <<"E","R","R","O","R">>
N_WARNING == <<"W","A","R","N","I","N","G">>
N_WARN == <<"W","A","R","N">>
N_INFO == <<"I","N","F","O">>
N_DEBUG == <<"D","E","B","U","G">>
N_NOTSET == <<"N","O","T","S","E","T">>
N_BASIC_FORMAT == <<"B","A","S","I","C","_","F","O","R","M","A","T">>

\* getattr(logging, name, logging.WARNING): the module's upper-case attributes are
\* the level numbers and the format string BASIC_FORMAT
LoggingAttr(name) ==
    CASE name = N_CRITICAL -> PyInt(CRITICAL)
      [] name = N_FATAL -> PyInt(CRITICAL)
      [] name = N_ERROR -> PyInt(ERROR)
      [] name = N_WARNING -> PyInt(WARNING)
      [] name = N_WARN -> PyInt(WARNING)
      [] name = N_INFO -> PyInt(INFO)
      [] name = N_DEBUG -> PyInt(DEBUG)
      [] name = N_NOTSET -> PyInt(NOTSET)
      [] name = N_BASIC_FORMAT -> PyStr(<<"%(levelname)s:%(name)s:%(message)s">>)
      [] OTHER -> PyInt(WARNING)

\* _LEVELS.get(name, logging.WARNING) of __main__.py
_LEVELS(name) ==
    CASE name = N_CRITICAL -> CRITICAL
      [] name = N_ERROR -> ERROR
      [] name = N_WARNING -> WARNING
      [] name = N_INFO -> INFO
      [] name = N_DEBUG -> DEBUG
      [] name = N_NOTSET -> NOTSET
      [] OTHER -> WARNING

\* (v or ""): the string, "" for None
OrEmpty(v) == IF Truthy(v) THEN v.s ELSE <<>>

\* a or b on strings
Or(a, b) == IF a # <<>> THEN a ELSE b

\* variant: the environment is consulted before the flag
ConfiguredLevel_env_first(cli_level_name, cfg_level_name) ==
    LET level_name ==
            Or(Strip(OrEmpty(env["EIDON_LOG_LEVEL"])),
               Or(Strip(OrEmpty(cli_level_name)),
                  Or(Strip(OrEmpty(cfg_level_name)), N_WARNING)))
    IN  LoggingAttr(Upper(level_name))

\* the level _configure_logging hands to basicConfig
ConfiguredLevel(cli_level_name, cfg_level_name) ==
    LET level_name ==
            Or(Strip(OrEmpty(cli_level_name)),
               Or(Strip(OrEmpty(env["EIDON_LOG_LEVEL"])),
                  Or(Strip(OrEmpty(cfg_level_name)), N_WARNING)))
    IN  LoggingAttr(Upper(level_name))

\* variant: without force=True basicConfig does nothing once the root has a handler
basicConfig_noforce(r, level) ==
    IF r.stream # "none" THEN [root |-> r, raised |-> "none"]
    ELSE IF level.t = "int"
    THEN [root |-> [level |-> level.n, stream |-> "stderr"], raised |-> "none"]
    ELSE [root |-> [level |-> r.level, stream |-> "stderr"], raised |-> "ValueError"]

\* logging.basicConfig(level=level, force=True): the old handlers are removed, a
\* StreamHandler on sys.stderr is installed, then the level is set; setLevel raises
\* ValueError for a string that names no level
basicConfig(r, level) ==
    IF level.t = "int"
    THEN [root |-> [level |-> level.n, stream |-> "stderr"], raised |-> "none"]
    ELSE [root |-> [level |-> r.level, stream |-> "stderr"], raised |-> "ValueError"]

LogRecord(levelno, name, msg) == [kind |-> "log", levelno |-> levelno, name |-> name, msg |-> msg]

\* logger.log(levelno, msg) on a logger below the root: dropped under the root's
\* level, else written to the root handler's stream; with no handler configured the
\* last-resort handler writes WARNING and above to sys.stderr
Emit(r, io, levelno, name, msg) ==
    IF levelno < r.level THEN io
    ELSE IF r.stream = "stderr" THEN [io EXCEPT !.err = Append(@, LogRecord(levelno, name, msg))]
    ELSE IF levelno >= WARNING THEN [io EXCEPT !.err = Append(@, LogRecord(levelno, name, msg))]
    ELSE io

\* print(text) and print(json.dumps(payload))
PrintText(io, text) == [io EXCEPT !.out = Append(@, [kind |-> "text", text |-> text])]
PrintJson(io, payload) == [io EXCEPT !.out = Append(@, [kind |-> "json", doc |-> payload])]

-----------------------------------------------------------------------------
(* cli.py: argument parsing *)

Text == PyStr(<<"text">>)
Json == PyStr(<<"json">>)

\* getattr(ns, name, default)
GetAttr(ns, name, default) == IF name \in DOMAIN ns THEN ns[name] ELSE default

\* the attributes the root parser of cli.py sets
RootNamespace(a) ==
    [log_level |-> a.log_level,
     config |-> a.config,
     format |-> IF a.format = PyNone THEN Text ELSE a.format,
     subcommand |-> IF a.sub = "none" THEN PyNone
                    ELSE IF a.sub = "config show" THEN PyStr(<<"config">>)
                    ELSE PyStr(<<a.sub>>)]

\* the attributes a subparser sets, its defaults included; argparse copies all of
\* them over the namespace of the parent parser
SubNamespace(a) ==
    LET fmt == IF a.sub_format = PyNone THEN Text ELSE a.sub_format
    IN  CASE a.sub = "hello" -> [name |-> a.name, format |-> fmt, func |-> "_run"]
          [] a.sub = "config show" ->
                [config_cmd |-> PyStr(<<"show">>), with_sources |-> a.with_sources,
                 format |-> fmt, func |-> "_run_show"]
          [] a.sub = "config" -> [config_cmd |-> PyNone]
          [] a.sub = "demo-web" -> [func |-> "run_demo_web"]
          [] OTHER -> [subcommand |-> PyNone]

\* parser.parse_args(argv) with the parser of cli.build_parser
parse_args(a) == SubNamespace(a) @@ RootNamespace(a)

\* parser.parse_args(argv) with the parser of __main__.build_parser
main_parse_args(a) ==
    (CASE a.sub = "hello" -> [name |-> a.name, func |-> "hello"]
       [] OTHER -> [config_cmd |-> PyStr(<<"show">>), with_sources |-> a.with_sources,
                    func |-> "config_show"])
    @@ [config |-> a.config, log_level |-> a.log_level,
        command |-> IF a.sub = "hello" THEN PyStr(<<"hello">>) ELSE PyStr(<<"config">>)]

Keep == <<entry, argv, env, fs, Outside>>

Inputs == <<entry, argv, env, fs, held, proc, target, Dashboard>>

\* cli.py lines 53-58: build_parser imports the command modules and applies each
\* registrar of a copy of the registry; the parser of __main__.py names its
\* subcommands itself
BuildParser ==
    IF entry = "run_cli"
    THEN /\ _REGISTRY' = autodiscover(Loaded_modules).registry
         /\ sys_modules' = autodiscover(Loaded_modules).modules
    ELSE UNCHANGED <<_REGISTRY, sys_modules>>

Usage == [kind |-> "usage"]

\* an error of the argument parser, printed after the usage
ParserError(msg) == [kind |-> "error", msg |-> msg]

\* cli.py line 26 and __main__.py line 59: the values --log-level accepts
LevelChoices ==
    IF entry = "run_cli" THEN {N_CRITICAL, N_ERROR, N_WARNING, N_INFO, N_DEBUG}
    ELSE {N_CRITICAL, N_ERROR, N_WARNING, N_INFO, N_DEBUG, N_NOTSET}

InvalidChoice == argv.log_level # PyNone /\ argv.log_level.s \notin LevelChoices

\* what parse_args does with the command line: "parsed" when it returns a
\* namespace, else the reason it exits. Flags are handled in command-line order,
\* --log-level first; the parser of __main__.py has no --version flag and requires
\* both subcommand levels.
ParserVerdict ==
    IF InvalidChoice THEN "invalid choice"
    ELSE IF argv.sub = "--help" THEN "help"
    ELSE IF argv.sub = "--version" THEN (IF entry = "run_cli" THEN "version" ELSE "required")
    ELSE IF entry = "main" /\ argv.sub \notin {"hello", "config show"} THEN "required"
    ELSE "parsed"

\* run_cli lines 86-87 and main lines 82-83
Parse ==
    /\ pc = "parse"
    /\ ParserVerdict = "parsed"
    /\ args' = IF entry = "run_cli" THEN parse_args(argv) ELSE main_parse_args(argv)
    /\ pc' = "load_config"
    /\ BuildParser
    /\ UNCHANGED <<Inputs, cfg, sources, exc, root, stdout, stderr, code, trace>>

\* parse_args ends the invocation with SystemExit: the version (cli.py lines 35-40)
\* and the help go to sys.stdout with code 0; an error (invalid choice, a required
\* subcommand missing: __main__.py lines 62 and 73) prints the usage and the error
\* to sys.stderr with code 2
ParseExit ==
    /\ pc = "parse"
    /\ ParserVerdict # "parsed"
    /\ IF ParserVerdict \in {"help", "version"}
       THEN /\ stdout' = Append(stdout, [kind |-> "text", text |-> <<ParserVerdict>>])
            /\ code' = 0
            /\ UNCHANGED <<stderr, trace>>
       ELSE /\ stderr' = stderr \o <<Usage, ParserError(ParserVerdict)>>
            /\ code' = 2
            /\ trace' = Append(trace, UsageShown)
            /\ UNCHANGED stdout
    /\ exc' = "SystemExit"
    /\ pc' = "exited"
    /\ BuildParser
    /\ UNCHANGED <<Inputs, args, cfg, sources, root>>

-----------------------------------------------------------------------------
(* cli.py: logging setup, dispatch and the mapping of outcomes to exit codes *)

\* variant: the level that was chosen is written back into the configuration
ConfigureLogging_writeback ==
    /\ pc = "loaded"
    /\ entry = "run_cli"
    /\ LET r == basicConfig(root, ConfiguredLevel(GetAttr(args, "log_level", PyNone),
                                                  cfg["log_level"]))
       IN  /\ root' = r.root
           /\ exc' = r.raised
           /\ pc' = IF r.raised = "none" THEN "dispatch" ELSE "raised"
    /\ cfg' = [cfg EXCEPT !["log_level"] = GetAttr(args, "log_level", PyNone)]
    /\ UNCHANGED <<Keep, args, sources, stdout, stderr, code, trace>>

\* run_cli line 94
ConfigureLogging ==
    /\ pc = "loaded"
    /\ entry = "run_cli"
    /\ LET r == basicConfig(root, ConfiguredLevel(GetAttr(args, "log_level", PyNone),
                                                  cfg["log_level"]))
       IN  /\ root' = r.root
           /\ exc' = r.raised
           /\ pc' = IF r.raised = "none" THEN "dispatch" ELSE "raised"
    /\ UNCHANGED <<Keep, args, cfg, sources, stdout, stderr, code, trace>>

\* variant: the usage code is returned without printing the usage
DispatchUsage_silent ==
    /\ pc = "dispatch"
    /\ entry = "run_cli"
    /\ "func" \notin DOMAIN args
    /\ code' = EXIT_USAGE
    /\ pc' = "done"
    /\ trace' = trace
    /\ UNCHANGED <<Keep, args, cfg, sources, exc, root, stdout, stderr>>

\* run_cli lines 99-101
DispatchUsage ==
    /\ pc = "dispatch"
    /\ entry = "run_cli"
    /\ "func" \notin DOMAIN args
    /\ stderr' = Append(stderr, Usage)
    /\ code' = EXIT_USAGE
    /\ pc' = "done"
    /\ trace' = Append(trace, UsageShown)
    /\ UNCHANGED <<Keep, args, cfg, sources, exc, root, stdout>>

\* what a handler did: its writes, how it ended, and the calls it made
Returned(io, func, value) ==
    [io |-> io, kind |-> "return", value |-> value, msg |-> <<>>,
     trace |-> <<Called(func, "return")>>]
Raised(io, func, kind, value, msg) ==
    [io |-> io, kind |-> kind, value |-> value, msg |-> msg,
     trace |-> <<Called(func, kind)>>]

\* variant: an interrupt is treated as any other exception
MapOutcome_no_interrupt(r, o) ==
    CASE o.kind = "return" -> [io |-> o.io, code |-> o.value]
      [] o.kind = "EidonError" ->
            [io |-> Emit(r, o.io, ERROR, "eidon", o.msg), code |-> o.value]
      [] OTHER ->
            [io |-> Emit(r, o.io, ERROR, "eidon", <<"Unexpected error: ">> \o o.msg),
             code |-> EXIT_RUNTIME]

\* variant: a normal return is reported as a runtime failure
MapOutcome_return_lost(r, o) ==
    CASE o.kind = "return" -> [io |-> o.io, code |-> EXIT_RUNTIME]
      [] o.kind = "EidonError" ->
            [io |-> Emit(r, o.io, ERROR, "eidon", o.msg), code |-> o.value]
      [] o.kind = "KeyboardInterrupt" ->
            [io |-> Emit(r, o.io, ERROR, "eidon", <<"Interrupted.">>), code |-> 130]
      [] OTHER ->
            [io |-> Emit(r, o.io, ERROR, "eidon", <<"Unexpected error: ">> \o o.msg),
             code |-> EXIT_RUNTIME]

\* the try/except of run_cli lines 103-113, applied to what the handler did
MapOutcome(r, o) ==
    CASE o.kind = "return" -> [io |-> o.io, code |-> o.value]
      [] o.kind = "EidonError" ->
            [io |-> Emit(r, o.io, ERROR, "eidon", o.msg), code |-> o.value]
      [] o.kind = "KeyboardInterrupt" ->
            [io |-> Emit(r, o.io, ERROR, "eidon", <<"Interrupted.">>), code |-> 130]
      [] OTHER ->
            [io |-> Emit(r, o.io, ERROR, "eidon", <<"Unexpected error: ">> \o o.msg),
             code |-> EXIT_RUNTIME]

Finish(o) ==
    LET m == MapOutcome(root, o)
    IN  /\ stdout' = m.io.out
        /\ stderr' = m.io.err
        /\ code' = m.code
        /\ pc' = "done"
        /\ trace' = trace \o o.trace
        /\ UNCHANGED <<Keep, args, cfg, sources, exc, root>>

-----------------------------------------------------------------------------
(* commands/hello.py *)

_effective_name ==
    IF Truthy(GetAttr(args, "name", PyNone)) THEN args["name"].s
    ELSE IF Truthy(env["EIDON_DEFAULT_NAME"]) THEN env["EIDON_DEFAULT_NAME"].s
    ELSE IF cfg # PyNone /\ Truthy(GetAttr(cfg, "default_name", PyNone)) THEN cfg["default_name"].s
    ELSE World

Greeting(name) == <<"Hello, ">> \o name \o <<"!">>

_run(io) ==
    IF env["EIDON_TEST_RAISE"] = PyStr(<<"EidonError">>)
    THEN Raised(io, "_run", "EidonError", 7, <<"boom">>)
    ELSE LET io1 == Emit(root, io, DEBUG, "eidon.hello", <<"Preparing greeting">>)
             name == _effective_name
             greeting == Greeting(name)
             io2 == IF GetAttr(args, "format", Text) = Json
                    THEN PrintJson(io1, [ok |-> TRUE, command |-> "hello",
                                         name |-> name, greeting |-> greeting])
                    ELSE PrintText(io1, greeting)
         IN  Returned(Emit(root, io2, INFO, "eidon.hello", <<"Greeting sent">>), "_run", 0)

RunHello ==
    /\ pc = "dispatch"
    /\ entry = "run_cli"
    /\ GetAttr(args, "func", "") = "_run"
    /\ Finish(_run([out |-> stdout, err |-> stderr]))

-----------------------------------------------------------------------------
(* commands/config_cmd.py *)

\* load_config(args.config) as one call, for the fallback of _run_show
FreshLoad ==
    LET r1 == TierBlock(Config, DefaultSources, _user_config_path, UserLabel)
        r2 == TierBlock(r1.cfg, r1.sources, _project_config_path, ProjectLabel)
        override_path == GetAttr(args, "config", PyNone)
        r3 == IF Truthy(override_path)
              THEN TierBlock(r2.cfg, r2.sources, Path(override_path.s),
                             OverrideLabel(Path(override_path.s)))
              ELSE r2
    IN  EnvLevel(EnvName([cfg |-> r3.cfg, sources |-> r3.sources]))

\* dict.get(key, "default") on the provenance dict
SourceOf(s, k) == IF k \in DOMAIN s THEN s[k] ELSE <<"default">>

\* variant: the attached configuration is never used
Attached_never == FALSE

\* config_cmd.py line 11, negated: run_cli attached a configuration and its sources
Attached == cfg # PyNone /\ sources # PyNone

ShowResolved == IF Attached THEN [cfg |-> cfg, sources |-> sources] ELSE FreshLoad

\* return 0: the handler's history is itself, then load_config when it resolved again
ShowReturned(io) ==
    [io |-> io, kind |-> "return", value |-> 0, msg |-> <<>>,
     trace |-> IF Attached
               THEN <<Called("_run_show", "return")>>
               ELSE <<Called("_run_show", "return"), Resolved>>]

ShowSources == [default_name |-> SourceOf(ShowResolved.sources, "default_name"),
                log_level |-> SourceOf(ShowResolved.sources, "log_level")]

ShowPayload ==
    [ok |-> TRUE, command |-> "config.show",
     default_name |-> ShowResolved.cfg["default_name"], log_level |-> ShowResolved.cfg["log_level"]]

ShowSuffix(k) ==
    IF GetAttr(args, "with_sources", FALSE) THEN <<" (source=">> \o ShowSources[k] \o <<")">> ELSE <<>>

_run_show(io) ==
    IF GetAttr(args, "format", Text) = Json
    THEN ShowReturned(PrintJson(io, IF GetAttr(args, "with_sources", FALSE)
                                    THEN ShowPayload @@ [sources |-> ShowSources]
                                    ELSE ShowPayload))
    ELSE ShowReturned(
             PrintText(
                 PrintText(io, <<"default_name: ">> \o ShowResolved.cfg["default_name"].s
                                   \o ShowSuffix("default_name")),
                 <<"log_level: ">> \o OrEmpty(ShowResolved.cfg["log_level"]) \o ShowSuffix("log_level")))

RunShow ==
    /\ pc = "dispatch"
    /\ entry = "run_cli"
    /\ GetAttr(args, "func", "") = "_run_show"
    /\ Finish(_run_show([out |-> stdout, err |-> stderr]))

-----------------------------------------------------------------------------
(* demo_launch.py: the launcher runs child processes; what they print is theirs *)

DemoOutcomes == {"return", "CalledProcessError", "KeyboardInterrupt"}

run_demo_web(io, outcome) ==
    IF outcome = "return" THEN Returned(io, "run_demo_web", 0)
    ELSE Raised(io, "run_demo_web", outcome, 1, <<outcome>>)

RunDemoWeb ==
    /\ pc = "dispatch"
    /\ entry = "run_cli"
    /\ GetAttr(args, "func", "") = "run_demo_web"
    /\ \E outcome \in DemoOutcomes : Finish(run_demo_web([out |-> stdout, err |-> stderr], outcome))

-----------------------------------------------------------------------------
(* __main__.py: main reads cfg.values of what load_config returns, a tuple *)

Escape(io, name, calls) ==
    /\ stdout' = io.out
    /\ stderr' = io.err
    /\ exc' = name
    /\ pc' = "raised"
    /\ trace' = trace \o calls
    /\ UNCHANGED <<Keep, args, cfg, sources, root, code>>

\* _setup_logging(level_str)
_setup_logging(r, io, level_str) ==
    LET level == _LEVELS(Upper(Or(OrEmpty(level_str), N_WARNING)))
        r1 == [level |-> level, stream |-> "stderr"]
    IN  [root |-> r1, io |-> Emit(r1, io, DEBUG, "eidon", <<"Logging initialized at ">>)]

\* main lines 87-89: args.log_level or cfg.values.get("log_level", "WARNING")
MainLogging ==
    /\ pc = "loaded"
    /\ entry = "main"
    /\ IF Truthy(args["log_level"])
       THEN LET r == _setup_logging(root, [out |-> stdout, err |-> stderr], args["log_level"])
            IN  /\ root' = r.root
                /\ stdout' = r.io.out
                /\ stderr' = r.io.err
                /\ pc' = "main_dispatch"
                /\ UNCHANGED <<Keep, args, cfg, sources, exc, code, trace>>
       ELSE /\ Escape([out |-> stdout, err |-> stderr], "AttributeError", <<>>)
            /\ UNCHANGED root

\* cmd_hello, called at main line 92
MainHello ==
    /\ pc = "main_dispatch"
    /\ entry = "main"
    /\ args["func"] = "hello"
    /\ IF args["name"] # PyNone
       THEN LET io1 == Emit(root, [out |-> stdout, err |-> stderr], DEBUG, "eidon",
                            <<"Preparing greeting for ">> \o args["name"].s)
                io2 == PrintText(io1, Greeting(args["name"].s))
                io3 == Emit(root, io2, INFO, "eidon", <<"Greeting sent">>)
            IN  /\ stdout' = io3.out
                /\ stderr' = io3.err
                /\ code' = 0
                /\ pc' = "done"
                /\ trace' = Append(trace, Called("cmd_hello", "return"))
                /\ UNCHANGED <<Keep, args, cfg, sources, exc, root>>
       ELSE Escape([out |-> stdout, err |-> stderr], "AttributeError",
                   <<Called("cmd_hello", "AttributeError")>>)

\* cmd_config_show, called at main line 94
MainShow ==
    /\ pc = "main_dispatch"
    /\ entry = "main"
    /\ args["func"] = "config_show"
    /\ Escape(PrintText([out |-> stdout, err |-> stderr], <<"Effective config:">>),
              "AttributeError", <<Called("cmd_config_show", "AttributeError")>>)

-----------------------------------------------------------------------------
(* One invocation of the command line *)

Levels == {PyNone, PyStr(N_WARNING), PyStr(N_INFO), PyStr(N_DEBUG), PyStr(N_CRITICAL)}
NameFlags == {PyNone, PyStr(<<>>), PyStr(<<"C","L","I">>)}
Formats == {PyNone, Json}
ConfigFlags == {PyNone, PyStr(<<"custom.toml">>)}

Argv(l, c, f, sub, n, sf, ws) ==
    [log_level |-> l, config |-> c, format |-> f, sub |-> sub, name |-> n,
     sub_format |-> sf, with_sources |-> ws]

\* command lines the parser of cli.py accepts
RunCliArgv ==
    {Argv(l, c, f, "hello", n, sf, FALSE) :
        l \in Levels, c \in ConfigFlags, f \in Formats, n \in NameFlags, sf \in Formats}
    \cup {Argv(l, c, f, "config show", PyNone, sf, ws) :
        l \in Levels, c \in ConfigFlags, f \in Formats, sf \in Formats, ws \in BOOLEAN}
    \cup {Argv(l, c, f, sub, PyNone, PyNone, FALSE) :
        l \in Levels, c \in ConfigFlags, f \in Formats, sub \in {"none", "config", "demo-web"}}

\* command lines the parser of __main__.py accepts
MainArgv ==
    {Argv(l, c, PyNone, "hello", n, PyNone, FALSE) :
        l \in {PyNone, PyStr(N_INFO), PyStr(N_NOTSET)}, c \in ConfigFlags, n \in NameFlags}
    \cup {Argv(l, c, PyNone, "config show", PyNone, PyNone, ws) :
        l \in {PyNone, PyStr(N_INFO)}, c \in ConfigFlags, ws \in BOOLEAN}

\* command lines the parser of __main__.py rejects: no subcommand, config without show
MainRejected ==
    {Argv(l, PyNone, PyNone, sub, PyNone, PyNone, FALSE) :
        l \in {PyNone, PyStr(N_INFO)}, sub \in {"none", "config"}}

Verbose == <<"V","E","R","B","O","S","E">>

\* command lines both parsers end themselves: --version or --help as the first
\* argument after an optional --log-level, and a --log-level outside the choices
ParserEnded ==
    {Argv(l, PyNone, PyNone, sub, PyNone, PyNone, FALSE) :
        l \in {PyNone, PyStr(N_INFO), PyStr(Verbose)}, sub \in {"--version", "--help"}}
    \cup {Argv(PyStr(Verbose), c, PyNone, sub, PyNone, PyNone, FALSE) :
        c \in ConfigFlags, sub \in {"hello", "config show", "none"}}

CliEnvLevels ==
    {PyNone, PyStr(<<>>), PyStr(<<"d","e","b","u","g">>), PyStr(<<" ","i","n","f","o"," ">>),
     PyStr(<<"b","a","s","i","c","_","f","o","r","m","a","t">>)}

Init ==
    /\ \E e \in {"run_cli", "main"} :
          /\ entry = e
          /\ argv \in (IF e = "run_cli" THEN RunCliArgv \cup ParserEnded
                       ELSE MainArgv \cup MainRejected \cup ParserEnded)
    /\ \E u \in {Absent, NestedFile(UserName, 1)}, p \in {Absent, NameFile(ProjectName)},
          o \in (IF argv.config = PyNone THEN {LoggingFile}
                 ELSE {LoggingFile, NestedFile(FromCustom, 1)}) :
          fs = Files(u, p, o)
    /\ \E n \in EnvNames, l \in CliEnvLevels,
          r \in (IF entry = "run_cli" /\ argv.sub = "hello"
                 THEN {PyNone, PyStr(<<"EidonError">>)} ELSE {PyNone}) :
          env = Environ(PyNone, n, l, r)
    /\ pc = "parse"
    /\ args = PyNone
    /\ cfg = PyNone
    /\ sources = PyNone
    /\ exc = "none"
    /\ root = Idle
    /\ stdout = <<>>
    /\ stderr = <<>>
    /\ code = -1
    /\ trace = <<>>
    /\ FreshProcess
    /\ Elsewhere

Next ==
    \/ Parse
    \/ ParseExit
    \/ load_config
    \/ ConfigureLogging
    \/ DispatchUsage
    \/ RunHello
    \/ RunShow
    \/ RunDemoWeb
    \/ MainLogging
    \/ MainHello
    \/ MainShow

Spec == Init /\ [][Next]_vars

-----------------------------------------------------------------------------
(* What each tier offers, read off the inputs *)

Keys == {"default_name", "log_level"}

OverrideGiven == Truthy(args.config)

\* the files of the user, project and override tiers
TierFiles ==
    <<FileAt(_user_config_path), FileAt(_project_config_path),
      IF OverrideGiven THEN FileAt(Path(args.config.s)) ELSE Absent>>

BadFile(f) == f.kind \in {"malformed", "unreadable"}

\* the name a file defines: a string under default_name or name
FileName(f) == IF f.kind = "toml" THEN _find_name_recursive(f.m) ELSE PyNone

\* the level a file defines: [logging].level when a string, else top-level log_level
FileLevel(f) ==
    IF f.kind # "toml" THEN PyNone
    ELSE LET tbl == Get(f.m, "logging")
             top == Get(f.m, "log_level")
         IN  IF tbl.t = "tbl" /\ Get(tbl.m, "level").t = "str" THEN Get(tbl.m, "level")
             ELSE IF top.t = "str" THEN top
             ELSE PyNone

\* tiers 1..5 = defaults, user, project, override, env: what each defines for a key,
\* PyNone when it does not define it
Offered(k) ==
    IF k = "default_name"
    THEN <<PyStr(World), FileName(TierFiles[1]), FileName(TierFiles[2]),
           FileName(TierFiles[3]), env["EIDON_DEFAULT_NAME"]>>
    ELSE <<PyNone, FileLevel(TierFiles[1]), FileLevel(TierFiles[2]),
           FileLevel(TierFiles[3]), env["EIDON_LOG_LEVEL"]>>

NoTierSets(k) == \A i \in 2..5 : Offered(k)[i] = PyNone

\* the highest-precedence tier that defines the key; 1 (defaults) when none does
WinnerTier(k) ==
    IF NoTierSets(k) THEN 1
    ELSE CHOOSE i \in 2..5 : Offered(k)[i] # PyNone /\ \A j \in (i+1)..5 : Offered(k)[j] = PyNone

\* a level is upper-cased when it is taken in, a name is taken as it is
Ingested(k, v) == IF k = "log_level" /\ v.t = "str" THEN PyStr(Upper(v.s)) ELSE v

TierTag(k, i) ==
    CASE i = 1 -> <<"default">>
      [] i = 2 -> <<"user">>
      [] i = 3 -> <<"project">>
      [] i = 4 -> <<"override:">> \o Path(args.config.s)
      [] i = 5 -> <<"env:", IF k = "default_name" THEN "EIDON_DEFAULT_NAME" ELSE "EIDON_LOG_LEVEL">>

IsLower(c) == \E i \in 1..Len(LowerCase) : LowerCase[i] = c

\* the result of folding only the readable files, then the environment
Readable(r, f, label) ==
    IF f.kind = "toml" THEN _apply_from_mapping(r.cfg, r.sources, f.m, label) ELSE r

AsIfAbsent ==
    EnvLevel(EnvName(
        Readable(
            Readable(
                Readable([cfg |-> Config, sources |-> DefaultSources], TierFiles[1], UserLabel),
                TierFiles[2], ProjectLabel),
            TierFiles[3],
            IF OverrideGiven THEN OverrideLabel(Path(args.config.s)) ELSE <<>>)))

-----------------------------------------------------------------------------
(* Claims about load_config, checked under SpecResolver *)

\* C1: for each key, load_config returns the value defined by the highest-precedence
\* tier that defines it (defaults < user < project < override < env), whatever the
\* lower tiers hold; a level is returned in its upper-cased form.
C1_Precedence ==
    pc = "loaded" =>
        \A k \in Keys :
            (k = "default_name" \/ ~NoTierSets(k)) =>
                cfg[k] = Ingested(k, Offered(k)[WinnerTier(k)])

C1_Witness ==
    /\ pc = "loaded"
    /\ \A i \in 2..5 : Offered("default_name")[i] # PyNone
    /\ Offered("default_name")[3] # Offered("default_name")[5]
    /\ Offered("log_level")[2] # PyNone
    /\ Offered("log_level")[3] # PyNone
    /\ Offered("default_name")[2] # Offered("default_name")[3]
    /\ WinnerTier("log_level") = 3
    /\ cfg["default_name"] = PyStr(EnvNameValue)

\* C2 as stated: a key that no tier sets resolves to its built-in default and is
\* never absent or null.
C2_NeverNull ==
    pc = "loaded" =>
        \A k \in Keys :
            NoTierSets(k) =>
                /\ k \in DOMAIN cfg
                /\ cfg[k] = (IF k = "default_name" THEN PyStr(World) ELSE PyNone)
                /\ cfg[k] # PyNone

\* C2 amended: a key that no tier sets is present and holds its built-in default,
\* "World" for default_name and None (null) for log_level; default_name is never null.
C2_BuiltInDefault ==
    pc = "loaded" =>
        /\ \A k \in Keys :
              NoTierSets(k) =>
                  /\ k \in DOMAIN cfg
                  /\ cfg[k] = (IF k = "default_name" THEN PyStr(World) ELSE PyNone)
        /\ cfg["default_name"] # PyNone

C2_Witness ==
    /\ pc = "loaded"
    /\ \A k \in Keys : NoTierSets(k)
    /\ \E i \in 1..3 : TierFiles[i].kind = "toml"

\* C3: a malformed or unreadable file at the user, project or override tier never
\* makes load_config raise, and the result is the one obtained without that file.
C3_BadFileIsAbsent ==
    (\E i \in 1..3 : BadFile(TierFiles[i])) =>
        /\ exc = "none"
        /\ pc # "raised"
        /\ pc = "loaded" => cfg = AsIfAbsent.cfg /\ sources = AsIfAbsent.sources

C3_Witness ==
    /\ pc = "loaded"
    /\ TierFiles[1].kind = "malformed"
    /\ TierFiles[2].kind = "toml"
    /\ TierFiles[3].kind = "unreadable"
    /\ sources["default_name"] = ProjectLabel

\* C4: the provenance tag of a key names the tier that supplied its final value:
\* "default" exactly when no tier set the key, else the highest-precedence tier that
\* set it; the value is the one that same tier offered.
C4_Provenance ==
    pc = "loaded" =>
        \A k \in Keys :
            /\ sources[k] = TierTag(k, WinnerTier(k))
            /\ (sources[k] = <<"default">>) <=> NoTierSets(k)
            /\ \A i \in 1..5 :
                  (i > 1 => Offered(k)[i] # PyNone) /\ sources[k] = TierTag(k, i)
                      => cfg[k] = Ingested(k, Offered(k)[i])

C4_Witness ==
    /\ pc = "loaded"
    /\ sources["default_name"] = <<"env:", "EIDON_DEFAULT_NAME">>
    /\ Offered("default_name")[3] # PyNone
    /\ sources["log_level"] = <<"project">>
    /\ Offered("log_level")[2] # PyNone

\* C5 as stated: every tag is default, user:<path>, project:<path>, override:<path>
\* or env:<VAR_NAME>, <path> being the path of the file that supplied the value.
C5_TagForms ==
    pc = "loaded" =>
        \A k \in Keys :
            \/ sources[k] = <<"default">>
            \/ sources[k] = <<"user:">> \o _user_config_path
            \/ sources[k] = <<"project:">> \o _project_config_path
            \/ OverrideGiven /\ sources[k] = <<"override:">> \o Path(args.config.s)
            \/ sources[k] \in {<<"env:", "EIDON_DEFAULT_NAME">>, <<"env:", "EIDON_LOG_LEVEL">>}

\* C5 amended: every tag is default, user, project, override:<path> or env:<VAR_NAME>;
\* only the override tag carries a path, the --config path as Path() spells it.
C5_TagFormsNoPath ==
    pc = "loaded" =>
        \A k \in Keys :
            \/ sources[k] \in {<<"default">>, <<"user">>, <<"project">>}
            \/ OverrideGiven /\ sources[k] = <<"override:">> \o Path(args.config.s)
            \/ sources[k] \in {<<"env:", "EIDON_DEFAULT_NAME">>, <<"env:", "EIDON_LOG_LEVEL">>}

C5_Witness ==
    /\ pc = "loaded"
    /\ args.config = PyStr(<<".", "custom.toml">>)
    /\ sources["default_name"] = <<"override:", "custom.toml">>
    /\ sources["log_level"] = <<"user">>

\* C6: after load_config the value mapping and the provenance mapping both cover
\* exactly {default_name, log_level}, also when files hold unrecognized keys.
C6_KeySet ==
    pc = "loaded" => DOMAIN cfg = Keys /\ DOMAIN sources = Keys

C6_Witness ==
    /\ pc = "loaded"
    /\ TierFiles[1].kind = "toml" /\ Get(TierFiles[1].m, "color") # PyNone
    /\ TierFiles[2] = OtherFile
    /\ sources["default_name"] = <<"user">>

\* C7: a log_level supplied by any tier is resolved to the upper-cased form of the
\* supplied string, whatever its case.
C7_UpperCased ==
    pc = "loaded" /\ ~NoTierSets("log_level") =>
        /\ cfg["log_level"].t = "str"
        /\ Len(cfg["log_level"].s) = Len(Offered("log_level")[WinnerTier("log_level")].s)
        /\ \A i \in 1..Len(cfg["log_level"].s) :
              /\ ~IsLower(cfg["log_level"].s[i])
              /\ cfg["log_level"].s[i] =
                    UpperChar(Offered("log_level")[WinnerTier("log_level")].s[i])

C7_Witness ==
    /\ pc = "loaded"
    /\ Offered("log_level")[WinnerTier("log_level")] = PyStr(<<"I","n","f","o">>)
    /\ cfg["log_level"] = PyStr(<<"I","N","F","O">>)

-----------------------------------------------------------------------------
(* Claims about one invocation of the command line *)

\* logging has been set up in this invocation
Configured == root.stream = "stderr" /\ exc # "ValueError"

\* the number of the level a name denotes, letter case and surrounding blanks
\* aside; -1 when it denotes none
LevelNumber(name) ==
    LET n == Upper(Strip(name))
    IN  CASE n = N_CRITICAL -> CRITICAL
          [] n = N_ERROR -> ERROR
          [] n = N_WARNING -> WARNING
          [] n = N_INFO -> INFO
          [] n = N_DEBUG -> DEBUG
          [] n = N_NOTSET -> NOTSET
          [] OTHER -> -1

\* the level name selected by flag, else environment, else the files, else WARNING
ChosenLevelName ==
    IF argv.log_level # PyNone THEN argv.log_level.s
    ELSE IF env["EIDON_LOG_LEVEL"] # PyNone THEN env["EIDON_LOG_LEVEL"].s
    ELSE IF \E i \in 2..4 : Offered("log_level")[i] # PyNone
         THEN Offered("log_level")[WinnerTier("log_level")].s
         ELSE N_WARNING

LogRecords(stream) == {i \in 1..Len(stream) : stream[i].kind = "log"}

\* C8: once logging is set up, the root level is the level named by the --log-level
\* flag if given, else by EIDON_LOG_LEVEL if set, else by the configuration files'
\* log_level if any, else WARNING; and every log record written has a level at or
\* above that level (at WARNING no INFO or DEBUG record; a WARNING flag beats an
\* environment DEBUG).
C8_LevelPrecedence ==
    Configured =>
        /\ LevelNumber(ChosenLevelName) >= 0 => root.level = LevelNumber(ChosenLevelName)
        /\ \A i \in LogRecords(stderr) : stderr[i].levelno >= root.level
        /\ \A i \in LogRecords(stdout) : stdout[i].levelno >= root.level

C8_Witness ==
    /\ pc = "done"
    /\ entry = "run_cli"
    /\ argv.sub = "hello"
    /\ env["EIDON_TEST_RAISE"] = PyNone
    /\ argv.log_level = PyStr(N_WARNING)
    /\ env["EIDON_LOG_LEVEL"] = PyStr(<<"d","e","b","u","g">>)
    /\ root.level = WARNING
    /\ LogRecords(stderr) = {}

\* the name hello greeted: that of the one result it printed
Greeted ==
    {IF stdout[i].kind = "json" THEN stdout[i].doc.name
     ELSE SubSeq(stdout[i].text, 2, Len(stdout[i].text) - 1) :
        i \in {j \in 1..Len(stdout) : stdout[j].kind # "log"}}

\* the highest-precedence name among flag, environment, files (override, project,
\* user) and the built-in one, a source counting when ok(value) holds
NameByPrecedence(ok(_)) ==
    LET file == Offered("default_name")
    IN  IF ok(argv.name) THEN argv.name.s
        ELSE IF ok(env["EIDON_DEFAULT_NAME"]) THEN env["EIDON_DEFAULT_NAME"].s
        ELSE IF ok(file[4]) THEN file[4].s
        ELSE IF ok(file[3]) THEN file[3].s
        ELSE IF ok(file[2]) THEN file[2].s
        ELSE World

IsGiven(v) == v # PyNone

HelloReturned ==
    /\ entry = "run_cli"
    /\ argv.sub = "hello"
    /\ pc = "done"
    /\ env["EIDON_TEST_RAISE"] = PyNone

\* C9: hello exits with 0 and greets the name chosen by the precedence --name flag >
\* EIDON_DEFAULT_NAME > configuration files (project over user) > "World", whether
\* a source counts as soon as it is given or only when it is non-empty.
C9_NamePrecedence ==
    HelloReturned =>
        /\ code = 0
        /\ \/ Greeted = {NameByPrecedence(IsGiven)}
           \/ Greeted = {NameByPrecedence(Truthy)}

\* the three scenarios the claim lists, which the code does meet
C9_Scenarios ==
    HelloReturned =>
        /\ code = 0
        /\ Truthy(argv.name) => Greeted = {argv.name.s}
        /\ (argv.name = PyNone /\ Truthy(env["EIDON_DEFAULT_NAME"]))
              => Greeted = {env["EIDON_DEFAULT_NAME"].s}
        /\ (argv.name = PyNone /\ env["EIDON_DEFAULT_NAME"] = PyNone
              /\ \A i \in 2..4 : Offered("default_name")[i] = PyNone)
              => Greeted = {World}

\* --format json was asked for, before or after the subcommand
JsonAsked == argv.format = Json \/ argv.sub_format = Json

\* log records only on standard error, results only on standard output
StreamsSeparate ==
    /\ LogRecords(stdout) = {}
    /\ \A i \in 1..Len(stderr) : stderr[i].kind \in {"log", "usage", "error"}

\* C10: no log record is ever on standard output and no result on standard error,
\* and a handler that ran with --format json leaves exactly one JSON document on
\* standard output.
C10_StreamSeparation ==
    /\ StreamsSeparate
    /\ (/\ entry = "run_cli"
        /\ pc = "done"
        /\ code = 0
        /\ argv.sub \in {"hello", "config show"}
        /\ JsonAsked)
          => (Len(stdout) = 1 /\ stdout[1].kind = "json")

\* the same with the flag after the subcommand, which the code does meet
C10_SubcommandFormat ==
    /\ StreamsSeparate
    /\ (/\ entry = "run_cli"
        /\ pc = "done"
        /\ code = 0
        /\ argv.sub \in {"hello", "config show"}
        /\ argv.sub_format = Json)
          => (Len(stdout) = 1 /\ stdout[1].kind = "json")

-----------------------------------------------------------------------------
(* Claims about the mapping of outcomes to exit codes *)

\* the handler calls recorded so far
Calls == {i \in 1..Len(trace) : trace[i].ev = "call"}

\* run_cli has returned after a handler ended in the given way
HandlerEnded(kind) ==
    /\ entry = "run_cli"
    /\ pc = "done"
    /\ \E i \in Calls : trace[i].outcome = kind

\* a log record with the given level and text is on standard error
OnStderr(levelno, msg) ==
    \E i \in LogRecords(stderr) : stderr[i].levelno = levelno /\ stderr[i].msg = msg

\* C11: when the handler raised EidonError("boom", code=7), run_cli returns 7, the
\* message "boom" is on standard error and nothing is on standard output.
C11_EidonErrorMapped ==
    HandlerEnded("EidonError") =>
        /\ code = 7
        /\ OnStderr(ERROR, <<"boom">>)
        /\ stdout = <<>>

\* the same, the message being asked for only while ERROR records are enabled
C11_WhenErrorEnabled ==
    HandlerEnded("EidonError") =>
        /\ code = 7
        /\ root.level <= ERROR => OnStderr(ERROR, <<"boom">>)
        /\ root.level > ERROR => stderr = <<>>
        /\ stdout = <<>>

\* C12: when the handler failed with an exception that is neither an EidonError nor
\* an interrupt, run_cli returns 3 and the failure is logged on standard error.
C12_UnexpectedMapped ==
    HandlerEnded("CalledProcessError") =>
        /\ code = EXIT_RUNTIME
        /\ OnStderr(ERROR, <<"Unexpected error: ", "CalledProcessError">>)

\* the same, the record being asked for only while ERROR records are enabled
C12_WhenErrorEnabled ==
    HandlerEnded("CalledProcessError") =>
        /\ code = EXIT_RUNTIME
        /\ root.level <= ERROR => OnStderr(ERROR, <<"Unexpected error: ", "CalledProcessError">>)
        /\ root.level > ERROR => stderr = <<>>

\* C13: when the handler was interrupted (KeyboardInterrupt), run_cli returns 130.
C13_InterruptIs130 == HandlerEnded("KeyboardInterrupt") => code = 130

C13_Witness == HandlerEnded("KeyboardInterrupt") /\ code = 130

-----------------------------------------------------------------------------
(* Claims about dispatch *)

Usages == {i \in 1..Len(trace) : trace[i].ev = "usage"}
Loads == {i \in 1..Len(trace) : trace[i].ev = "load_config"}

\* the invocation has ended without an exception escaping
Ended == pc \in {"done", "exited"}

\* the command line names no handler: no subcommand, or config without show
NoRunnable == argv.sub \in {"none", "config"}

\* C14: an invocation whose arguments name no runnable subcommand ends with the usage
\* message printed, no handler invoked, nothing on standard output and the usage
\* code 2.
C14_UsageOnly ==
    (NoRunnable /\ Ended) =>
        /\ code = EXIT_USAGE
        /\ \E i \in 1..Len(stderr) : stderr[i] = Usage
        /\ Calls = {}
        /\ stdout = <<>>

C14_Witness ==
    /\ entry = "run_cli"
    /\ argv.sub = "config"
    /\ pc = "done"
    /\ code = EXIT_USAGE
    /\ stderr = <<Usage>>

\* C15: an invocation never has both a handler call and a usage message, nor two
\* handler calls; one that ended has exactly one of them; and when the handler
\* returned normally the exit code is the integer it returned (0 for every handler).
C15_OneHandlerOrUsage ==
    /\ Cardinality(Calls) + Cardinality(Usages) <= 1
    /\ (Ended /\ ParserVerdict \notin {"help", "version"})
          => Cardinality(Calls) + Cardinality(Usages) = 1
    /\ HandlerEnded("return") => code = 0

C15_Witness ==
    /\ HandlerEnded("return")
    /\ argv.sub = "config show"
    /\ Cardinality(Calls) = 1
    /\ Usages = {}
    /\ code = 0

\* C16: no failure after argument parsing leaves run_cli as an exception: run_cli
\* always returns an integer code, and after a failed handler a message is on
\* standard error.
C16_NoFailureEscapes ==
    entry = "run_cli" =>
        /\ pc # "raised"
        /\ exc = "none"
        /\ (pc = "done" /\ \E i \in Calls : trace[i].outcome # "return")
              => (code \in 1..255 /\ LogRecords(stderr) # {})

\* the part the try block of run_cli does cover: a handler's failure never escapes
C16_HandlerFailuresMapped ==
    (entry = "run_cli" /\ Calls # {}) => (pc = "done" /\ exc = "none" /\ code \in 0..255)

\* C17: configuration is resolved at most once in an invocation, exactly once in one
\* that is over after parsing (with or without an exception), and before the handler
\* is called; the handler finds the
\* resolved configuration attached, and config show prints that one without
\* resolving again.
C17_SinglePass ==
    /\ Cardinality(Loads) <= 1
    /\ \A i \in Calls : \E j \in Loads : j < i
    /\ Calls # {} => (cfg # PyNone /\ sources # PyNone)
    /\ pc \in {"done", "raised"} => Cardinality(Loads) = 1
    /\ (HandlerEnded("return") /\ argv.sub = "config show" /\ argv.sub_format = Json)
          => (/\ stdout[1].doc.default_name = cfg["default_name"]
              /\ stdout[1].doc.log_level = cfg["log_level"])

C17_Witness ==
    /\ HandlerEnded("return")
    /\ argv.sub = "config show"
    /\ argv.sub_format = Json
    /\ Cardinality(Loads) = 1
    /\ stdout[1].doc.default_name = PyStr(FromCustom)

-----------------------------------------------------------------------------
(* Claims about the file named by --config *)

\* load_config has returned in this invocation
Loaded == pc \in {"loaded", "dispatch", "main_dispatch", "done"}

EnvOf(k) == IF k = "default_name" THEN env["EIDON_DEFAULT_NAME"] ELSE env["EIDON_LOG_LEVEL"]

\* the file named by --config defines the key
OverrideDefines(k) == Loaded /\ OverrideGiven /\ Offered(k)[4] # PyNone

-----------------------------------------------------------------------------
(* Claims about the search for the name inside one file *)

\* the name found when the direct keys of a table are tried first (default_name,
\* then name, strings only) and then its subsections in file order, down to d levels
RECURSIVE NameWithin(_, _)
NameWithin(m, d) ==
    LET strings == {v \in {Get(m, "default_name"), Get(m, "name")} : v.t = "str"}
        inside(i) == IF d > 0 /\ m[i].v.t = "tbl" THEN NameWithin(m[i].v.m, d - 1) ELSE PyNone
        holders == {i \in 1..Len(m) : inside(i) # PyNone}
    IN  IF Get(m, "default_name") \in strings THEN Get(m, "default_name")
        ELSE IF Get(m, "name") \in strings THEN Get(m, "name")
        ELSE IF holders # {} THEN inside(CHOOSE i \in holders : \A j \in holders : i <= j)
        ELSE PyNone

ProjectMapping == FileAt(_project_config_path).m

NameOr(v) == IF v = PyNone THEN PyStr(World) ELSE v

\* C19 as stated: the file's name is the one found at the top level or one level
\* inside a subsection, top level first, non-strings skipped, without error.
C19_OneLevel ==
    /\ exc = "none"
    /\ pc = "loaded" => cfg["default_name"] = NameOr(NameWithin(ProjectMapping, 1))

\* C19: the file's name is the one found at the top level or inside a subsection at
\* any depth, each table's direct keys first and its subsections after, in file
\* order; non-strings are skipped, without error.
C19_AnyDepth ==
    /\ exc = "none"
    /\ pc = "loaded" => cfg["default_name"] = NameOr(NameWithin(ProjectMapping, MaxDepth))

C19_Witness ==
    /\ pc = "loaded"
    /\ Get(ProjectMapping, "default_name") = PyInt(5)
    /\ Get(ProjectMapping, "name") = PyInt(5)
    /\ Get(ProjectMapping, "b") # PyNone
    /\ NameWithin(ProjectMapping, 1) # PyStr(<<"D">>)
    /\ cfg["default_name"] = PyStr(<<"D">>)

-----------------------------------------------------------------------------
(* Claims about tiers that contribute nothing *)

\* the tier (2 = user .. 5 = environment) the next step of load_config folds in
TierAt ==
    CASE pc = "load_user" -> 2
      [] pc = "load_project" -> 3
      [] pc = "load_override" -> 4
      [] pc = "load_env" -> 5
      [] OTHER -> 0

\* C20: a step of load_config whose tier has nothing for a key (file missing,
\* --config path missing, file malformed or unreadable, value absent or not a
\* string, variable unset) leaves the key's value and its provenance tag as they
\* were, and raises nothing.
C20_Frame ==
    [][\A k \in Keys :
          (TierAt # 0 /\ Offered(k)[TierAt] = PyNone)
              => (cfg'[k] = cfg[k] /\ sources'[k] = sources[k] /\ exc' = "none")]_vars

C20_Witness ==
    /\ pc = "load_override"
    /\ BadFile(TierFiles[2])
    /\ Offered("default_name")[2] # PyNone
    /\ cfg["default_name"] = Offered("default_name")[2]
    /\ sources["default_name"] = <<"user">>
    /\ sources["log_level"] = <<"user">>

-----------------------------------------------------------------------------
(* The same claims over every invocation, those that end in an exception included *)

\* the invocation got past argument parsing and is over
Over == pc \in {"done", "raised"}

\* C8 over both entry points: an invocation that got past the resolution of the
\* configuration and whose selected level name denotes a level has logging set up
\* at that level.
C8_EveryEntry ==
    (Over /\ LevelNumber(ChosenLevelName) >= 0) =>
        (Configured /\ root.level = LevelNumber(ChosenLevelName))

\* C14 over every environment: an invocation that names no runnable subcommand is
\* over only with the usage printed, no handler called and the code 2.
C14_UsageAlways ==
    (NoRunnable /\ (Over \/ Ended)) =>
        /\ code = EXIT_USAGE
        /\ \E i \in 1..Len(stderr) : stderr[i] = Usage
        /\ Calls = {}
        /\ stdout = <<>>

\* C15 over every invocation that got past argument parsing: once it is over it has
\* exactly one handler call or else a usage message.
C15_EveryInvocation ==
    /\ Cardinality(Calls) + Cardinality(Usages) <= 1
    /\ (entry = "run_cli" /\ Over) => Cardinality(Calls) + Cardinality(Usages) = 1
    /\ HandlerEnded("return") => code = 0

\* ---------------------------------------------------------------------------
\* config show as JSON (config_cmd.py:14-28)

\* run_cli was given config show with --format json after the subcommand
ShowJsonAsked == entry = "run_cli" /\ argv.sub = "config show" /\ argv.sub_format = Json

ShowMembers ==
    {"ok", "command", "default_name", "log_level"}
    \cup (IF argv.with_sources THEN {"sources"} ELSE {})

\* standard output holds exactly one JSON object with the members of config show
OneShowObject ==
    /\ Len(stdout) = 1
    /\ stdout[1].kind = "json"
    /\ DOMAIN stdout[1].doc = ShowMembers
    /\ stdout[1].doc.ok = TRUE
    /\ stdout[1].doc.command = "config.show"
    /\ stdout[1].doc.default_name = cfg["default_name"]
    /\ stdout[1].doc.log_level = cfg["log_level"]
    /\ argv.with_sources =>
          stdout[1].doc.sources = [default_name |-> SourceOf(sources, "default_name"),
                                   log_level |-> SourceOf(sources, "log_level")]

\* C21: config show --format json prints exactly one JSON object with the members
\* ok, command ("config.show"), default_name and log_level, the member sources
\* being present exactly when --with-sources was given, and exits with 0.
C21_JsonShow == (ShowJsonAsked /\ Over) => (code = 0 /\ OneShowObject)

\* C21 for the invocations whose handler ran: one object of that shape, exit 0
C21_WhenDispatched == (ShowJsonAsked /\ pc = "done") => (code = 0 /\ OneShowObject)

C21_Witness ==
    /\ ShowJsonAsked
    /\ pc = "done"
    /\ argv.with_sources
    /\ stdout[1].doc.sources.default_name = <<"project">>

\* ---------------------------------------------------------------------------
\* the resolved configuration after load_config (config.py:14-17, cli.py:89-104)

\* C22: once load_config has returned, no later step of the invocation (logging
\* setup, dispatch, the handler, the mapping of its outcome) changes the resolved
\* configuration or its sources: they are only read.
C22_ReadOnly == [][Loaded => (cfg' = cfg /\ sources' = sources)]_vars

\* hello ran with --name and --log-level given, both different from what the
\* files resolved to, and the resolved values are still the files'
C22_Witness ==
    /\ HelloReturned
    /\ argv.name # PyNone
    /\ argv.log_level = PyStr(N_DEBUG)
    /\ cfg["default_name"] = PyStr(ProjectName)
    /\ cfg["log_level"] = PyNone
    /\ sources["default_name"] = <<"project">>

\* ---------------------------------------------------------------------------
\* the name hello greets and the name config show reports

\* C27: hello without --name greets exactly the resolved default_name, the one
\* config show reports for the same files and environment, also when
\* EIDON_DEFAULT_NAME or a file's value is the empty string.
C27_SameName ==
    (HelloReturned /\ argv.name = PyNone) => Greeted = {cfg["default_name"].s}

\* the two agree whenever the resolved name is not empty
C27_WhenNonEmpty ==
    (HelloReturned /\ argv.name = PyNone /\ cfg["default_name"].s # <<>>)
        => Greeted = {cfg["default_name"].s}

\* ---------------------------------------------------------------------------
\* the two spellings of the level within one file (config.py:50-60)

TopLevelOf(f) == Get(f.m, "log_level")

TableLevelOf(f) ==
    IF Get(f.m, "logging").t = "tbl" THEN Get(Get(f.m, "logging").m, "level") ELSE PyNone

\* after the step the level is v upper-cased and tagged with tier i
LevelTaken(v, i) ==
    /\ cfg'["log_level"] = PyStr(Upper(v.s))
    /\ sources'["log_level"] = TierTag("log_level", i)

\* C28: when a file read by load_config has both a top-level log_level and a
\* [logging].level that are strings, the folded level is [logging].level; when only
\* one of them is a string, it is that one; either way upper-cased and tagged with
\* the file's tier.
C28_TableWins ==
    [][\A i \in 2..4 :
          (TierAt = i /\ TierFiles[i - 1].kind = "toml") =>
              LET top == TopLevelOf(TierFiles[i - 1])
                  tbl == TableLevelOf(TierFiles[i - 1])
              IN  /\ (top.t = "str" /\ tbl.t = "str") => LevelTaken(tbl, i)
                  /\ (top.t = "str" /\ tbl.t # "str") => LevelTaken(top, i)
                  /\ (top.t # "str" /\ tbl.t = "str") => LevelTaken(tbl, i)]_vars

\* the user file with both spellings was folded: the level is the table's
C28_Witness ==
    /\ pc = "load_project"
    /\ TierFiles[1] = LoggingFile
    /\ cfg["log_level"] = PyStr(N_INFO)
    /\ sources["log_level"] = <<"user">>

\* ---------------------------------------------------------------------------
\* invocations the argument parser ends (cli.py:16-45, __main__.py:47-79)

\* the invocation is over and the command line is one of the given kind
ParserEnds == pc # "parse" /\ argv \in ParserEnded

AsksVersionOrHelp == argv.sub \in {"--version", "--help"} /\ argv.log_level # PyStr(Verbose)

\* nothing was resolved and no handler ran
NothingRan == pc = "exited" /\ Loads = {} /\ Calls = {} /\ cfg = PyNone /\ root = Idle

PrintedAndZero == code = 0 /\ Len(stdout) = 1 /\ stderr = <<>>

InvalidChoiceAndTwo ==
    /\ code = 2
    /\ stdout = <<>>
    /\ \E i \in 1..Len(stderr) : stderr[i] = ParserError("invalid choice")

\* C25: an invocation the argument parser ends never resolves configuration or calls
\* a handler; --version and --help print to standard output, leave standard error
\* empty and exit with 0; a --log-level outside the choices prints an 'invalid
\* choice' error to standard error and exits with 2.
C25_ParserTerminated ==
    ParserEnds =>
        /\ NothingRan
        /\ AsksVersionOrHelp => PrintedAndZero
        /\ argv.log_level = PyStr(Verbose) => InvalidChoiceAndTwo

\* C25 for the parser of cli.py, and for --help and invalid choices under both
C25_RunCli ==
    (ParserEnds /\ (entry = "run_cli" \/ argv.sub # "--version")) =>
        /\ NothingRan
        /\ AsksVersionOrHelp => PrintedAndZero
        /\ argv.log_level = PyStr(Verbose) => InvalidChoiceAndTwo

C25_Witness ==
    /\ ParserEnds
    /\ entry = "run_cli"
    /\ argv.sub = "--version"
    /\ stdout = <<[kind |-> "text", text |-> <<"version">>]>>
    /\ code = 0

\* ---------------------------------------------------------------------------
\* The registry over the life of a process (commands/__init__.py:8-25)

MaxHeld == 3

Invocation ==
    <<entry, argv, env, fs, pc, args, cfg, sources, exc, root, stdout, stderr, code, trace>>

\* no invocation is running
NoInvocation ==
    /\ entry = "none"
    /\ argv = <<>>
    /\ env = Environ(PyNone, PyNone, PyNone, PyNone)
    /\ fs = Files(Absent, Absent, Absent)
    /\ pc = "idle"
    /\ args = PyNone
    /\ cfg = PyNone
    /\ sources = PyNone
    /\ exc = "none"
    /\ root = Idle
    /\ stdout = <<>>
    /\ stderr = <<>>
    /\ code = -1
    /\ trace = <<>>

InitRegistry == NoInvocation /\ FreshProcess /\ Elsewhere

\* autodiscover(), called directly or by build_parser (cli.py line 54)
Autodiscover ==
    /\ _REGISTRY' = autodiscover(Loaded_modules).registry
    /\ sys_modules' = autodiscover(Loaded_modules).modules
    /\ UNCHANGED <<Invocation, held, proc, target, Dashboard>>

\* import eidon.commands.<m> by any code of the process
ImportModule ==
    \E m \in {CommandModules[i] : i \in 1..Len(CommandModules)} :
        /\ _REGISTRY' = import_module(Loaded_modules, m).registry
        /\ sys_modules' = import_module(Loaded_modules, m).modules
        /\ UNCHANGED <<Invocation, held, proc, target, Dashboard>>

\* a caller keeps what get_registry() returns
GetRegistry ==
    /\ held' = get_registry(_REGISTRY)
    /\ UNCHANGED <<Invocation, _REGISTRY, sys_modules, proc, target, Dashboard>>

\* the caller appends to its list or removes the last item; a list that is the
\* registry itself changes the registry with it
MutateHeld ==
    /\ \/ \E x \in {"register_hello", "register_config", "other"} :
             /\ Len(held.items) < MaxHeld
             /\ held' = [held EXCEPT !.items = Append(@, x)]
       \/ /\ held.items # <<>>
          /\ held' = [held EXCEPT !.items = SubSeq(@, 1, Len(@) - 1)]
    /\ _REGISTRY' = IF held.alias THEN held'.items ELSE _REGISTRY
    /\ UNCHANGED <<Invocation, sys_modules, proc, target, Dashboard>>

NextRegistry == Autodiscover \/ ImportModule \/ GetRegistry \/ MutateHeld

SpecRegistry == InitRegistry /\ [][NextRegistry]_vars

\* how often a registrar is in the registry
Registered(f) == Cardinality({i \in 1..Len(_REGISTRY) : _REGISTRY[i] = f})

AllRegistrars == {Registrar(CommandModules[i]) : i \in 1..Len(CommandModules)}

\* C24: after any number of autodiscover calls (build_parser calls it) the registry
\* holds each subcommand registrar exactly once and nothing else, never one twice,
\* and changing a list obtained from get_registry leaves the registry as it was.
C24_Idempotent ==
    [][/\ \A f \in AllRegistrars : Registered(f)' <= 1
       /\ Autodiscover =>
             (Len(_REGISTRY') = Len(CommandModules) /\ \A f \in AllRegistrars : Registered(f)' = 1)
       /\ held' # held => _REGISTRY' = _REGISTRY]_vars

\* autodiscover ran after a direct import of hello, and the caller's copy was changed
C24_Witness ==
    /\ _REGISTRY = <<"register_hello", "register_config">>
    /\ sys_modules = {"config_cmd", "hello"}
    /\ held.items = <<"register_hello", "other">>

\* ---------------------------------------------------------------------------
\* Several invocations in one process (cli.py:77-82, tests/test_logging.py)

MaxInvocations == 3

NoEnv == Environ(PyNone, PyNone, PyNone, PyNone)

Call(e, a, v) == [entry |-> e, argv |-> a, env |-> v]

Hello(l) == Argv(l, PyNone, PyNone, "hello", PyNone, PyNone, FALSE)

\* the command lines and environments the invocations of a process are drawn from
ProcInputs ==
    {Call("run_cli", Hello(PyNone), NoEnv),
     Call("run_cli", Hello(PyStr(N_DEBUG)), NoEnv),
     Call("run_cli", Hello(PyStr(N_CRITICAL)), Environ(PyNone, PyNone, PyNone, PyStr(<<"EidonError">>))),
     Call("run_cli", Hello(PyNone), Environ(PyNone, PyNone, PyStr(<<"d","e","b","u","g">>), PyNone)),
     Call("run_cli", Hello(PyNone),
          Environ(PyNone, PyNone, PyStr(<<"b","a","s","i","c","_","f","o","r","m","a","t">>), PyNone)),
     Call("run_cli", Hello(PyNone), Environ(PyNone, PyNone, PyNone, PyStr(<<"EidonError">>))),
     Call("run_cli", Argv(PyNone, PyNone, PyNone, "config show", PyNone, Json, TRUE), NoEnv),
     Call("run_cli", Argv(PyNone, PyNone, PyNone, "--version", PyNone, PyNone, FALSE), NoEnv),
     Call("run_cli", Argv(PyNone, PyNone, PyNone, "none", PyNone, PyNone, FALSE), NoEnv),
     Call("main", Argv(PyStr(N_NOTSET), PyNone, PyNone, "hello", PyStr(<<"C","L","I">>), PyNone, FALSE),
          NoEnv),
     Call("main", Argv(PyNone, PyNone, PyNone, "hello", PyStr(<<"C","L","I">>), PyNone, FALSE), NoEnv)}

InitProcess ==
    /\ \E i \in ProcInputs : entry = i.entry /\ argv = i.argv /\ env = i.env
    /\ fs \in {Files(Absent, Absent, Absent), Files(NestedFile(UserName, 1), Absent, Absent)}
    /\ pc = "parse"
    /\ args = PyNone
    /\ cfg = PyNone
    /\ sources = PyNone
    /\ exc = "none"
    /\ root = Idle
    /\ stdout = <<>>
    /\ stderr = <<>>
    /\ code = -1
    /\ trace = <<>>
    /\ FreshProcess
    /\ Elsewhere

Over3 == pc \in {"done", "raised", "exited"}

\* what an invocation that is over has produced: its output, its exit code, the
\* exception that left it, and the level of the root logger it ran its handler at
Result ==
    [out |-> stdout, err |-> stderr, code |-> code, exc |-> exc,
     level |-> IF pc = "done" THEN root.level ELSE -1]

ThisRun == [input |-> Call(entry, argv, env), result |-> Result]

\* the same process calls run_cli (or main) again: the standard streams are
\* captured anew, the root logger and the registry are what the earlier
\* invocations left
Restart ==
    /\ Over3
    /\ proc.n + 1 < MaxInvocations
    /\ proc' = [n |-> proc.n + 1, runs |-> proc.runs \cup {ThisRun}]
    /\ \E i \in ProcInputs : entry' = i.entry /\ argv' = i.argv /\ env' = i.env
    /\ pc' = "parse"
    /\ args' = PyNone
    /\ cfg' = PyNone
    /\ sources' = PyNone
    /\ exc' = "none"
    /\ stdout' = <<>>
    /\ stderr' = <<>>
    /\ code' = -1
    /\ trace' = <<>>
    /\ UNCHANGED <<fs, root, Registry, target, Dashboard>>

NextProcess ==
    \/ Parse \/ ParseExit \/ load_config \/ ConfigureLogging \/ DispatchUsage
    \/ RunHello \/ RunShow \/ MainLogging \/ MainHello \/ Restart

SpecProcess == InitProcess /\ [][NextProcess]_vars

\* the invocations of the process that are over
Runs == proc.runs \cup (IF Over3 THEN {ThisRun} ELSE {})

NoRecordTwice(err) ==
    \A i, j \in LogRecords(err) : i # j => err[i] # err[j]

\* C23: in one process, two invocations with the same arguments, environment and
\* files produce the same output, exit code and logging level whatever ran between
\* them; no invocation writes a log record twice, and a hello run with no level
\* given anywhere writes no DEBUG or INFO record whatever level an earlier
\* invocation asked for.
C23_NoCarryOver ==
    /\ \A r, q \in Runs : r.input = q.input => r.result = q.result
    /\ \A r \in Runs : NoRecordTwice(r.result.err)
    /\ \A r \in Runs :
          (r.input = Call("run_cli", Hello(PyNone), NoEnv) /\ fs = Files(Absent, Absent, Absent))
              => (r.result.err = <<>> /\ r.result.level = WARNING)

\* a default hello ran first, then hello --log-level DEBUG, then the default hello
\* again, which is over
C23_Witness ==
    /\ proc.n = 2
    /\ pc = "done"
    /\ Call(entry, argv, env) = Call("run_cli", Hello(PyNone), NoEnv)
    /\ \E r \in proc.runs : r.input = Call("run_cli", Hello(PyNone), NoEnv)
    /\ \E r \in proc.runs :
          /\ r.input = Call("run_cli", Hello(PyStr(N_DEBUG)), NoEnv)
          /\ r.result.level = DEBUG
          /\ Len(r.result.err) = 2
    /\ stderr = <<>>

\* ---------------------------------------------------------------------------
\* The init subcommand (tests/test_init_scaffolder.py; its handler is not part of
\* the sources at hand and is described from the specification: a user-facing
\* error with the declared code 4 for "target already exists")

EmptyDir == [exists |-> TRUE, files |-> <<>>]
DirWith(name, content) == [exists |-> TRUE, files |-> (name :> content)]

\* what the target directory may be before init runs
TargetStates ==
    {NoTarget, EmptyDir, DirWith("some.txt", <<"pre-existing">>),
     DirWith("eidon.toml", <<"default_name = ", "Old">>)}

\* init <target> [--force] [--format json] after the root flags
InitArgv ==
    {Argv(l, PyNone, PyNone, "init", PyNone, sf, FALSE) @@ [force |-> b, target |-> t] :
        l \in Levels, sf \in Formats, b \in BOOLEAN, t \in TargetStates}

InitNamespace(a) ==
    [force |-> a.force, format |-> IF a.sub_format = PyNone THEN Text ELSE a.sub_format,
     func |-> "_run_init"]

InitScaffold ==
    /\ entry = "run_cli"
    /\ argv \in InitArgv
    /\ target = argv.target
    /\ \E l \in CliEnvLevels : env = Environ(PyNone, PyNone, l, PyNone)
    /\ fs \in {Files(Absent, Absent, Absent), Files(Absent, NameFile(ProjectName), Absent)}
    /\ pc = "parse"
    /\ args = PyNone
    /\ cfg = PyNone
    /\ sources = PyNone
    /\ exc = "none"
    /\ root = Idle
    /\ stdout = <<>>
    /\ stderr = <<>>
    /\ code = -1
    /\ trace = <<>>
    /\ FreshProcess
    /\ overlay = EmptyOverlay
    /\ sess = NoSessions
    /\ clock = 0

ParseInit ==
    /\ pc = "parse"
    /\ argv.sub = "init"
    /\ args' = InitNamespace(argv) @@ RootNamespace(argv)
    /\ pc' = "load_config"
    /\ BuildParser
    /\ UNCHANGED <<Inputs, cfg, sources, exc, root, stdout, stderr, code, trace>>

\* the target exists, holds something, and --force was not given
Conflict(t, force) == t.exists /\ DOMAIN t.files # {} /\ ~force

DefaultToml == <<"default_name = ", "World">>

\* the files init writes, over whatever the directory held
Scaffolded(t) ==
    [exists |-> TRUE,
     files |-> SetItem(SetItem(t.files, "eidon.toml", DefaultToml), "README.md", <<"# ", "proj">>)]

ConflictMessage == <<"Target directory ", "exists and is not empty">>

_run_init(io) ==
    IF Conflict(target, GetAttr(args, "force", FALSE))
    THEN Raised(io, "_run_init", "EidonError", EXIT_EXISTS, ConflictMessage)
    ELSE Returned(
             Emit(root,
                  IF GetAttr(args, "format", Text) = Json
                  THEN PrintJson(io, [ok |-> TRUE, command |-> "init", path |-> "proj"])
                  ELSE PrintText(io, <<"Created ", "proj">>),
                  INFO, "eidon.init", <<"Initialized ", "proj">>),
             "_run_init", 0)

RunInit ==
    /\ pc = "dispatch"
    /\ entry = "run_cli"
    /\ GetAttr(args, "func", "") = "_run_init"
    /\ LET o == _run_init([out |-> stdout, err |-> stderr])
           m == MapOutcome(root, o)
       IN  /\ stdout' = m.io.out
           /\ stderr' = m.io.err
           /\ code' = m.code
           /\ trace' = trace \o o.trace
           /\ target' = IF o.kind = "return" THEN Scaffolded(target) ELSE target
    /\ pc' = "done"
    /\ UNCHANGED <<entry, argv, env, fs, args, cfg, sources, exc, root, Registry, proc, Dashboard>>

NextInit == ParseInit \/ load_config \/ ConfigureLogging \/ RunInit

SpecInit == InitScaffold /\ [][NextInit]_vars

InitRefused ==
    /\ code = EXIT_EXISTS
    /\ \E i \in LogRecords(stderr) : stderr[i].msg = ConflictMessage
    /\ stdout = <<>>
    /\ target = argv.target

InitWritten ==
    /\ code = 0
    /\ target.exists
    /\ "eidon.toml" \in DOMAIN target.files
    /\ target.files["eidon.toml"] = DefaultToml

\* C26: init on a target that exists and is not empty, without --force, exits with
\* 4, reports the conflict on standard error and leaves the files as they were; with
\* --force, or on a fresh or empty target, it writes eidon.toml and exits with 0.
C26_InitRefuses ==
    Over => IF Conflict(argv.target, argv.force) THEN InitRefused ELSE InitWritten

\* the same for the invocations that reach the handler with ERROR records enabled
C26_WhenReported ==
    (pc = "done" /\ root.level <= ERROR)
        => IF Conflict(argv.target, argv.force) THEN InitRefused ELSE InitWritten

\* at every level the refusal leaves the files alone and yields 4
C26_NeverOverwrites ==
    (pc = "done" /\ Conflict(argv.target, argv.force))
        => (code = EXIT_EXISTS /\ target = argv.target)

\* ---------------------------------------------------------------------------
\* demo_web.py: the inbox and the risk log in the overlay files

MaxItems == 2
MaxClock == 3
MaxOps == 3

\* the wall clock counts half seconds
TicksPerSecond == 2

\* line 302-303: strftime("%Y-%m-%d %H:%M:%S"), the time cut to the second
_now_str == clock \div TicksPerSecond

\* lines 287-294
_load_overlay(file, default) == IF file.exists THEN file.data ELSE default

\* lines 297-299
_save_overlay(data) == JsonFile(data)

\* dict.get(k, default)
ItemGet(it, k, default) == IF k \in DOMAIN it THEN it[k] ELSE default

\* lines 882-893: the entry the Nudge button appends
Nudge(issue) ==
    [id |-> _now_str, type |-> "nudge", issue |-> issue, project |-> "P1",
     state |-> "open", ts |-> _now_str]

\* lines 535-540, after the load
_append_inbox(data, e) ==
    Append(data, IF "id" \in DOMAIN e THEN e ELSE SetItem(e, "id", _now_str))

\* lines 591-594, after the load
_log_risk_action(data, key, action) ==
    Append(data, [key |-> key, action |-> action, ts |-> _now_str])

InboxActions == {"approve", "review", "snooze", "ask_why", "dismiss"}

\* lines 1018-1039: what each button does to the item it finds
Mutated(kind, it) ==
    CASE kind = "approve" -> SetItem(SetItem(it, "state", "approved"), "ts", _now_str)
      [] kind = "review" -> SetItem(SetItem(it, "state", "reviewed"), "ts", _now_str)
      [] kind = "snooze" -> SetItem(it, "snoozed_until", clock + 24 * 3600 * TicksPerSecond)
      [] kind = "ask_why" ->
            SetItem(SetItem(it, "why_requested_at", _now_str), "ai_note", "Flagged (demo)")
      [] kind = "dismiss" -> SetItem(SetItem(it, "deprioritized", TRUE), "ts", _now_str)

\* lines 1009-1015, after the load: the first item with the id is changed
_update_inbox_item(data, id_ts, kind) ==
    LET hits == {i \in 1..Len(data) : ItemGet(data[i], "id", -1) = id_ts}
    IN  IF hits = {} THEN data
        ELSE [data EXCEPT ![MinOf(hits)] = Mutated(kind, data[MinOf(hits)])]

\* lines 992-1003: the items the loop of _iter_inbox keeps
Visible(it, project_name, include_dismissed) ==
    /\ include_dismissed \/ ~ItemGet(it, "deprioritized", FALSE)
    /\ ~(ItemGet(it, "snoozed_until", 0) # 0 /\ clock < ItemGet(it, "snoozed_until", 0))
    /\ project_name = "All" \/ ItemGet(it, "project", "") = project_name

Dismissed(it) == ItemGet(it, "deprioritized", FALSE)

\* lines 988-1006: the kept items, the dismissed ones last
_iter_inbox(project_name, include_dismissed) ==
    LET data == _load_overlay(overlay.inbox, <<>>)
        out == SelectSeq(data, LAMBDA it : Visible(it, project_name, include_dismissed))
    IN  SelectSeq(out, LAMBDA it : ~Dismissed(it)) \o SelectSeq(out, Dismissed)

Idling(n) == [pc |-> "idle", n |-> n]

CliIdle ==
    /\ NoInvocation
    /\ FreshProcess
    /\ target = NoTarget

\* one dashboard session
InitInbox ==
    /\ CliIdle
    /\ overlay = EmptyOverlay
    /\ sess = [at |-> [s \in {1} |-> Idling(0)], dismissed |-> {}, done |-> {}]
    /\ clock = 0

\* two dashboard sessions on the same overlay directory
InitOverlay ==
    /\ CliIdle
    /\ overlay = EmptyOverlay
    /\ sess = [at |-> [s \in {1, 2} |-> Idling(0)], dismissed |-> {}, done |-> {}]
    /\ clock = 0

NotDashboard == <<Invocation, Registry, proc, target>>

Tick ==
    /\ clock < MaxClock
    /\ clock' = clock + 1
    /\ UNCHANGED <<NotDashboard, overlay, sess>>

\* the operations the sessions have begun so far
RECURSIVE Begun(_)
Begun(S) ==
    IF S = {} THEN 0
    ELSE LET s == CHOOSE x \in S : TRUE
         IN  sess.at[s].n + (IF sess.at[s].pc = "loaded" THEN 1 ELSE 0) + Begun(S \ {s})

CanBegin(s) == sess.at[s].pc = "idle" /\ Begun(DOMAIN sess.at) < MaxOps

\* the Nudge button: the entry is built, then _append_inbox loads the file
BeginAppend(s) ==
    /\ CanBegin(s)
    /\ Len(_load_overlay(overlay.inbox, <<>>)) < MaxItems
    /\ \E issue \in {"A", "B"} :
          sess' = [sess EXCEPT !.at[s] =
                      [pc |-> "loaded", n |-> @.n, op |-> "append", file |-> "inbox",
                       data |-> _load_overlay(overlay.inbox, <<>>), entry |-> Nudge(issue)]]
    /\ UNCHANGED <<NotDashboard, overlay, clock>>

\* a button of the inbox page, pressed on an item the page lists:
\* _update_inbox_item(item["id"], ...) loads the file
BeginUpdate(s) ==
    /\ CanBegin(s)
    /\ \E p \in 1..Len(_load_overlay(overlay.inbox, <<>>)), kind \in InboxActions,
          include_dismissed \in BOOLEAN :
          /\ Visible(overlay.inbox.data[p], "All", include_dismissed)
          /\ sess' = [sess EXCEPT !.at[s] =
                         [pc |-> "loaded", n |-> @.n, op |-> "update", file |-> "inbox",
                          data |-> _load_overlay(overlay.inbox, <<>>),
                          id_ts |-> overlay.inbox.data[p].id, kind |-> kind, on |-> p]]
    /\ UNCHANGED <<NotDashboard, overlay, clock>>

\* a button of the risk list: _log_risk_action loads the file
BeginRisk(s) ==
    /\ CanBegin(s)
    /\ Len(_load_overlay(overlay.risk, <<>>)) < MaxItems
    /\ \E action \in {"reassign", "split"} :
          sess' = [sess EXCEPT !.at[s] =
                      [pc |-> "loaded", n |-> @.n, op |-> "risk", file |-> "risk",
                       data |-> _load_overlay(overlay.risk, <<>>), key |-> "R1",
                       action |-> action]]
    /\ UNCHANGED <<NotDashboard, overlay, clock>>

\* the list the operation of a session saves
Modified(o) ==
    CASE o.op = "append" -> _append_inbox(o.data, o.entry)
      [] o.op = "update" -> _update_inbox_item(o.data, o.id_ts, o.kind)
      [] o.op = "risk" -> _log_risk_action(o.data, o.key, o.action)

\* what the operation was meant to leave in the file
Effect(o) ==
    CASE o.op = "append" -> [op |-> "append", entry |-> o.entry]
      [] o.op = "update" -> [op |-> "update", on |-> o.on, kind |-> o.kind]
      [] o.op = "risk" -> [op |-> "risk", entry |-> Modified(o)[Len(Modified(o))]]

\* the operation changes its list and writes it back
Save(s) ==
    /\ sess.at[s].pc = "loaded"
    /\ overlay' = [overlay EXCEPT ![sess.at[s].file] = _save_overlay(Modified(sess.at[s]))]
    /\ sess' = [at |-> [sess.at EXCEPT ![s] = Idling(@.n + 1)],
                dismissed |-> IF sess.at[s].op = "update" /\ sess.at[s].kind = "dismiss"
                              THEN sess.dismissed \cup {sess.at[s].on} ELSE sess.dismissed,
                done |-> sess.done \cup {Effect(sess.at[s])}]
    /\ UNCHANGED <<NotDashboard, clock>>

NextInbox ==
    \/ Tick
    \/ \E s \in DOMAIN sess.at : BeginAppend(s)
    \/ \E s \in DOMAIN sess.at : BeginUpdate(s)
    \/ \E s \in DOMAIN sess.at : Save(s)

SpecInbox == InitInbox /\ [][NextInbox]_vars

NextOverlay == NextInbox \/ \E s \in DOMAIN sess.at : BeginRisk(s)

SpecOverlay == InitOverlay /\ [][NextOverlay]_vars

\* ---------------------------------------------------------------------------
\* inbox actions (demo_web.py:1009-1039)

Stored == _load_overlay(overlay.inbox, <<>>)

\* session s writes back an inbox action in this step
UpdateSaved(s) ==
    /\ sess.at[s].pc = "loaded"
    /\ sess.at[s].op = "update"
    /\ sess'.at[s].pc = "idle"

\* the step changes the item the action was invoked on as the action says and no other
OnlyTheItem(s) ==
    overlay'.inbox.data =
        [Stored EXCEPT ![sess.at[s].on] = Mutated(sess.at[s].kind, Stored[sess.at[s].on])]

\* no item the user dismissed is in the default listing
DismissedHidden ==
    \A p \in sess.dismissed :
        \A i \in 1..Len(_iter_inbox("All", FALSE)) : _iter_inbox("All", FALSE)[i] # Stored[p]

DistinctIds == \A i, j \in 1..Len(Stored) : i # j => Stored[i].id # Stored[j].id

\* C29: every inbox action (approve, review, snooze, ask why, dismiss) changes the
\* item it was invoked on and leaves every other stored item as it was, also for
\* items appended within the same clock second, and an item the user dismissed is
\* not listed by _iter_inbox without include_dismissed.
C29_ExactlyTheItem ==
    [][/\ \A s \in DOMAIN sess.at : UpdateSaved(s) => OnlyTheItem(s)
       /\ DismissedHidden']_vars

\* the same while no two stored items share an id
C29_WhenIdsDistinct ==
    [][DistinctIds' =>
          /\ \A s \in DOMAIN sess.at : UpdateSaved(s) => OnlyTheItem(s)
          /\ DismissedHidden']_vars

\* ---------------------------------------------------------------------------
\* load-modify-save on the overlay files (demo_web.py:287-299, 535-540, 591-594,
\* 1009-1015)

RiskLog == _load_overlay(overlay.risk, <<>>)

AllIdle == \A s \in DOMAIN sess.at : sess.at[s].pc = "idle"

\* the stored item carries what the action leaves on it
Marked(kind, it) ==
    CASE kind \in {"approve", "review"} -> it.state \in {"approved", "reviewed"}
      [] kind = "snooze" -> "snoozed_until" \in DOMAIN it
      [] kind = "ask_why" -> "why_requested_at" \in DOMAIN it
      [] kind = "dismiss" -> Dismissed(it)

\* the file holds the effect of a finished operation
Present(e) ==
    CASE e.op = "append" ->
            \E i \in 1..Len(Stored) :
                Stored[i].id = e.entry.id /\ Stored[i].issue = e.entry.issue
      [] e.op = "risk" -> \E i \in 1..Len(RiskLog) : RiskLog[i] = e.entry
      [] e.op = "update" -> e.on <= Len(Stored) /\ Marked(e.kind, Stored[e.on])

\* C30: once the operations of the sessions on the overlay files (_append_inbox,
\* _update_inbox_item, _log_risk_action) are finished, the files hold the effect of
\* every one of them, however their load and save steps were interleaved.
C30_NoLostUpdate == AllIdle => \A e \in sess.done : Present(e)

\* the same for operations that ran one after the other on items with distinct ids
C30_OneAtATime ==
    (AllIdle /\ DistinctIds /\ Cardinality(DOMAIN sess.at) = 1) => \A e \in sess.done : Present(e)

====
